---- MODULE Spec2Model ----
(***************************************************************************)
(* Model of the bookmark state engine of vscode-filemarks                  *)
(* (src/src/bookmarkStore.ts).                                             *)
(*                                                                         *)
(* The tree is kept as the code keeps it: a sequence of nodes, a folder    *)
(* holding the sequence of its children.  Every public method and every    *)
(* event handler of BookmarkStore is one action.  The timestamps           *)
(* createdAt / updatedAt are left out: no branch of the store reads them.  *)
(* StorageService (src/unnamed/part_004) and LRUCache                       *)
(* (src/unnamed/part_001) are modelled beside it.                          *)
(*                                                                         *)
(* Spec is the store with its folders: every method and handler on a tree  *)
(* of at most MaxFolders folders, with few numbers and lines.              *)
(* SpecMarks is the store without folders: the methods and handlers that   *)
(* act on marks and files, with more numbers and lines for MainFile and    *)
(* fewer for the other file.                                               *)
(* SpecFolders is the store with nested folders and one file.              *)
(* SpecStorage and SpecLoad are StorageService alone, SpecLRU is LRUCache  *)
(* alone, SpecCache is the store with its lookup cache, and SpecEngine is  *)
(* the store with the save request and the notification of its private     *)
(* save().                                                                 *)
(***************************************************************************)
EXTENDS Integers, Sequences, FiniteSets, TLC

\* ---------------------------------------------------------------- bounds
MaxNum == 2          \* SpecMarks, MainFile: bookmark numbers 0..MaxNum
MaxLine == 2         \* SpecMarks, MainFile: line indices 0..MaxLine
MaxOtherNum == 0     \* SpecMarks, the other file: bookmark numbers 0..MaxOtherNum
MaxOtherLine == 0    \* SpecMarks, the other file: line indices 0..MaxOtherLine
MaxTreeNum == 1      \* Spec: bookmark numbers 0..MaxTreeNum
MaxTreeLine == 1     \* Spec: line indices 0..MaxTreeLine
MaxFolders == 1      \* the tree holds at most MaxFolders folders
MaxInserted == 1     \* line breaks in the text of one content change
MaxSaves == 2        \* SpecStorage: StorageService.save is called at most MaxSaves times
MaxLoads == 1        \* SpecStorage: StorageService.load is called at most MaxLoads times
MaxWriting == 2      \* SpecStorage: at most MaxWriting timer callbacks are in progress
MaxSize == 3         \* SpecLRU: an LRUCache is constructed with maxSize in 1..MaxSize
MaxAutoLine == 1     \* SpecAuto: the cursor is on a line 0..MaxAutoLine
MaxCalls == 3        \* SpecDebounce: the debounced function is called at most MaxCalls times

Files == {"a.ts", "b.ts"}
MainFile == "a.ts"
Nums == 0..MaxNum
Lines == 0..MaxLine
OtherNums == 0..MaxOtherNum
OtherLines == 0..MaxOtherLine
TreeNums == 0..MaxTreeNum
TreeLines == 0..MaxTreeLine
\* one id for each node the tree can hold: its folders and one bookmark a file
Ids == 1..(MaxFolders + Cardinality(Files))
Labels == {"", "L"}
Names == {"F", "G"}

\* items: this.state.items
VARIABLES items

\* StorageService and the files it works on
VARIABLES
  saveInProject,  \* the setting filemarks.saveBookmarksInProject
  document,       \* the file at getStoragePath(): its content, or Missing
  legacy,         \* the legacy global file: its content, or Missing
  backups,        \* the backup files, in the order they were made
  timers,         \* the timers set by save and not yet fired or cleared
  saveTimeout,    \* this.saveTimeout: the save call that set it, 0 for undefined
  writing,        \* the timer callbacks in progress
  migration,      \* where the async body of migrateLegacyGlobalStorage is
  loading,        \* the call of load()
  offers,         \* the recovery actions offered to the user
  recovering,     \* where the recovery action the user took is
  reported,       \* the errors shown to the user
  calls           \* history: the calls of save and load made so far

storageVars ==
  <<saveInProject, document, legacy, backups, timers, saveTimeout, writing,
    migration, loading, offers, recovering, reported, calls>>

\* an LRUCache: BookmarkStore's cache of findBookmarkByFilePath, or a cache on
\* its own
VARIABLES
  cache,          \* LRUCache.cache: the entries of the Map, in insertion order
  maxSize,        \* LRUCache.maxSize
  recency         \* history: the keys present with the value last set, least
                  \* recently used first

cacheVars == <<cache, maxSize, recency>>

\* the listeners of BookmarkStore.onDidChangeBookmarks
VARIABLES
  notified        \* history: the tree each change notification found

eventVars == <<notified>>

\* debounceAsync (src/unnamed/part_001): the closure of one debounced function
VARIABLES
  debounced       \* timeoutId, latestResolve / latestReject, the host's timers,
                  \* the calls of fn in flight, and the history of the calls
                  \* and of their promises

asyncVars == <<debounced>>
vars == <<items, storageVars, cacheVars, eventVars, asyncVars>>

\* "undefined" for a lookup that finds no node, and for an absent label
NULL == [type |-> "undefined"]
NoLabel == ""

\* ------------------------------------------------------ numbers: Record<number, number>
NoNumbers == [k \in {} |-> 0]
Has(numbers, k) == k \in DOMAIN numbers
Del(numbers, k) == [x \in DOMAIN numbers \ {k} |-> numbers[x]]
Put(numbers, k, v) == [x \in DOMAIN numbers \cup {k} |-> IF x = k THEN v ELSE numbers[x]]
Min(S) == CHOOSE x \in S : \A y \in S : x <= y
Max(S) == CHOOSE x \in S : \A y \in S : x >= y

\* the node literal built by toggleBookmark and addBookmark
NewBookmark(id, filePath, num, line) ==
  [type |-> "bookmark", id |-> id, label |-> NoLabel, filePath |-> filePath,
   numbers |-> Put(NoNumbers, num, line)]

\* the node literal built by createFolder
NewFolder(id, name) ==
  [type |-> "folder", id |-> id, name |-> name, children |-> <<>>]

\* ---------------------------------------------------------------- traversals
RECURSIVE findBookmarkByFilePath(_, _)
findBookmarkByFilePath(nodes, filePath) ==
  IF nodes = <<>> THEN NULL
  ELSE LET node == Head(nodes) IN
       IF node.type = "bookmark" /\ node.filePath = filePath THEN node
       ELSE LET found == IF node.type = "folder"
                         THEN findBookmarkByFilePath(node.children, filePath)
                         ELSE NULL
            IN IF found # NULL THEN found
               ELSE findBookmarkByFilePath(Tail(nodes), filePath)

RECURSIVE findFolderById(_, _)
findFolderById(nodes, id) ==
  IF nodes = <<>> THEN NULL
  ELSE LET node == Head(nodes) IN
       IF node.type = "folder" /\ node.id = id THEN node
       ELSE LET found == IF node.type = "folder"
                         THEN findFolderById(node.children, id)
                         ELSE NULL
            IN IF found # NULL THEN found
               ELSE findFolderById(Tail(nodes), id)

\* findNode of renameBookmark: the first bookmark with this id
RECURSIVE findBookmarkById(_, _)
findBookmarkById(nodes, id) ==
  IF nodes = <<>> THEN NULL
  ELSE LET node == Head(nodes) IN
       IF node.type = "bookmark" /\ node.id = id THEN node
       ELSE LET found == IF node.type = "folder"
                         THEN findBookmarkById(node.children, id)
                         ELSE NULL
            IN IF found # NULL THEN found
               ELSE findBookmarkById(Tail(nodes), id)

\* removeFromTree of removeAndGetNode: the tree without the first node (in
\* traversal order) whose id is id, and that node (NULL when there is none)
RECURSIVE removeAndGetNode(_, _)
removeAndGetNode(nodes, id) ==
  IF nodes = <<>> THEN [nodes |-> <<>>, node |-> NULL]
  ELSE LET node == Head(nodes) IN
       IF node.id = id THEN [nodes |-> Tail(nodes), node |-> node]
       ELSE LET sub == IF node.type = "folder"
                       THEN removeAndGetNode(node.children, id)
                       ELSE [nodes |-> <<>>, node |-> NULL]
            IN IF sub.node # NULL
               THEN [nodes |-> <<[node EXCEPT !.children = sub.nodes]>> \o Tail(nodes),
                     node |-> sub.node]
               ELSE LET rest == removeAndGetNode(Tail(nodes), id)
                    IN [nodes |-> <<node>> \o rest.nodes, node |-> rest.node]

\* the ids of the nodes of the tree
RECURSIVE IdsIn(_)
IdsIn(nodes) ==
  IF nodes = <<>> THEN {}
  ELSE {Head(nodes).id}
       \cup (IF Head(nodes).type = "folder" THEN IdsIn(Head(nodes).children) ELSE {})
       \cup IdsIn(Tail(nodes))

\* uuidv4(): an id that no node of the tree has.  Nothing but the nodes holds
\* an id, so which unused id it is makes no difference: it is the smallest.
uuidv4(nodes) == Min(Ids \ IdsIn(nodes))

\* removeBookmarkNode and removeNode have the same body: splice out the first
\* node with this id, whatever its type
removeBookmarkNode(nodes, id) == removeAndGetNode(nodes, id).nodes
removeNode(nodes, id) == removeAndGetNode(nodes, id).nodes

\* An assignment through the reference findBookmarkByFilePath returned: the
\* first bookmark of filePath, in traversal order, becomes new
RECURSIVE assignBookmark(_, _, _)
assignBookmark(nodes, filePath, new) ==
  IF nodes = <<>> THEN <<>>
  ELSE LET node == Head(nodes) IN
       IF node.type = "bookmark" /\ node.filePath = filePath
       THEN <<new>> \o Tail(nodes)
       ELSE IF node.type = "folder"
               /\ findBookmarkByFilePath(node.children, filePath) # NULL
            THEN <<[node EXCEPT !.children = assignBookmark(node.children, filePath, new)]>>
                 \o Tail(nodes)
            ELSE <<node>> \o assignBookmark(Tail(nodes), filePath, new)

\* An assignment through the reference findFolderById / findNode returned
RECURSIVE assignNode(_, _, _)
assignNode(nodes, id, new) ==
  IF nodes = <<>> THEN <<>>
  ELSE LET node == Head(nodes) IN
       IF node.type = new.type /\ node.id = id
       THEN <<new>> \o Tail(nodes)
       ELSE IF node.type = "folder"
            THEN LET sub == assignNode(node.children, id, new) IN
                 IF sub # node.children
                 THEN <<[node EXCEPT !.children = sub]>> \o Tail(nodes)
                 ELSE <<node>> \o assignNode(Tail(nodes), id, new)
            ELSE <<node>> \o assignNode(Tail(nodes), id, new)

\* ---------------------------------------------------------------- marks
\* Object.entries(...).find(([, l]) => l === line): integer keys are visited
\* in ascending order, so the entry found is the smallest number at line
NumbersAtLine(numbers, line) == {k \in DOMAIN numbers : numbers[k] = line}

\* ---- variants of toggleBookmark with one slip each
\* the branch "existingLine === line" forgets the delete
toggleBookmark_keepsMark(nodes, id, filePath, num, line) ==
  LET bookmark == findBookmarkByFilePath(nodes, filePath) IN
  IF bookmark = NULL
  THEN Append(nodes, NewBookmark(id, filePath, num, line))
  ELSE IF Has(bookmark.numbers, num) /\ bookmark.numbers[num] = line
       THEN nodes
       ELSE LET atLine == NumbersAtLine(bookmark.numbers, line)
                cleared == IF atLine # {}
                           THEN Del(bookmark.numbers, Min(atLine))
                           ELSE bookmark.numbers
            IN assignBookmark(nodes, filePath,
                              [bookmark EXCEPT !.numbers = Put(cleared, num, line)])

\* the move keeps the number where it was when the file has other marks
toggleBookmark_noMove(nodes, id, filePath, num, line) ==
  LET bookmark == findBookmarkByFilePath(nodes, filePath) IN
  IF bookmark = NULL
  THEN Append(nodes, NewBookmark(id, filePath, num, line))
  ELSE IF Has(bookmark.numbers, num) /\ bookmark.numbers[num] = line
       THEN LET numbers == Del(bookmark.numbers, num) IN
            IF DOMAIN numbers = {}
            THEN removeBookmarkNode(nodes, bookmark.id)
            ELSE assignBookmark(nodes, filePath, [bookmark EXCEPT !.numbers = numbers])
       ELSE IF Has(bookmark.numbers, num) /\ DOMAIN bookmark.numbers # {num}
            THEN nodes
            ELSE LET atLine == NumbersAtLine(bookmark.numbers, line)
                     cleared == IF atLine # {}
                                THEN Del(bookmark.numbers, Min(atLine))
                                ELSE bookmark.numbers
                 IN assignBookmark(nodes, filePath,
                                   [bookmark EXCEPT !.numbers = Put(cleared, num, line)])

\* every number found at line is cleared, not only the first
toggleBookmark_clearsAll(nodes, id, filePath, num, line) ==
  LET bookmark == findBookmarkByFilePath(nodes, filePath) IN
  IF bookmark = NULL
  THEN Append(nodes, NewBookmark(id, filePath, num, line))
  ELSE IF Has(bookmark.numbers, num) /\ bookmark.numbers[num] = line
       THEN LET numbers == Del(bookmark.numbers, num) IN
            IF DOMAIN numbers = {}
            THEN removeBookmarkNode(nodes, bookmark.id)
            ELSE assignBookmark(nodes, filePath, [bookmark EXCEPT !.numbers = numbers])
       ELSE LET atLine == NumbersAtLine(bookmark.numbers, line)
                cleared == [k \in DOMAIN bookmark.numbers \ atLine |-> bookmark.numbers[k]]
            IN assignBookmark(nodes, filePath,
                              [bookmark EXCEPT !.numbers = Put(cleared, num, line)])

\* toggleBookmark(filePath, num, line); id is the value of uuidv4()
toggleBookmark(nodes, id, filePath, num, line) ==
  LET bookmark == findBookmarkByFilePath(nodes, filePath) IN
  IF bookmark = NULL
  THEN Append(nodes, NewBookmark(id, filePath, num, line))
  ELSE IF Has(bookmark.numbers, num) /\ bookmark.numbers[num] = line
       THEN LET numbers == Del(bookmark.numbers, num) IN
            IF DOMAIN numbers = {}
            THEN removeBookmarkNode(nodes, bookmark.id)
            ELSE assignBookmark(nodes, filePath, [bookmark EXCEPT !.numbers = numbers])
       ELSE LET atLine == NumbersAtLine(bookmark.numbers, line)
                cleared == IF atLine # {}
                           THEN Del(bookmark.numbers, Min(atLine))
                           ELSE bookmark.numbers
            IN assignBookmark(nodes, filePath,
                              [bookmark EXCEPT !.numbers = Put(cleared, num, line)])

\* a variant of addBookmark with one slip: it never looks the file up
addBookmark_alwaysNew(nodes, id, filePath, num, line) ==
  Append(nodes, NewBookmark(id, filePath, num, line))

\* addBookmark(filePath, num, line); id is the value of uuidv4()
addBookmark(nodes, id, filePath, num, line) ==
  LET bookmark == findBookmarkByFilePath(nodes, filePath) IN
  IF bookmark = NULL
  THEN Append(nodes, NewBookmark(id, filePath, num, line))
  ELSE assignBookmark(nodes, filePath,
                      [bookmark EXCEPT !.numbers = Put(bookmark.numbers, num, line)])

\* removeBookmarkNumber(filePath, num)
removeBookmarkNumber(nodes, filePath, num) ==
  LET bookmark == findBookmarkByFilePath(nodes, filePath) IN
  IF bookmark = NULL THEN nodes
  ELSE LET numbers == Del(bookmark.numbers, num) IN
       IF DOMAIN numbers = {}
       THEN removeBookmarkNode(nodes, bookmark.id)
       ELSE assignBookmark(nodes, filePath, [bookmark EXCEPT !.numbers = numbers])

\* clearBookmarksInFile(filePath)
clearBookmarksInFile_emptiesNumbers(nodes, filePath) ==
  LET bookmark == findBookmarkByFilePath(nodes, filePath) IN
  IF bookmark = NULL THEN nodes
  ELSE assignBookmark(nodes, filePath, [bookmark EXCEPT !.numbers = NoNumbers])

clearBookmarksInFile(nodes, filePath) ==
  LET bookmark == findBookmarkByFilePath(nodes, filePath) IN
  IF bookmark = NULL THEN nodes ELSE removeBookmarkNode(nodes, bookmark.id)

\* ---------------------------------------------------------------- sticky tracking
\* One content change: range.start.line, range.end.line and the number of
\* line breaks of change.text (text.split('\n').length - 1)
Change(start, end, ins) == [start |-> start, end |-> end, ins |-> ins]
lineDelta(change) == change.ins - (change.end - change.start)

\* The inner loop of handleTextDocumentChange for one change.  The loop runs
\* over Object.entries(bookmark.numbers), taken before the loop writes.
adjustNumbers_fromStart(numbers, change) ==
  IF lineDelta(change) = 0 THEN numbers
  ELSE LET moved == {k \in DOMAIN numbers : numbers[k] >= change.start}
           gone == {k \in moved : numbers[k] + lineDelta(change) < 0}
       IN [k \in DOMAIN numbers \ gone |->
             IF k \in moved THEN numbers[k] + lineDelta(change) ELSE numbers[k]]

adjustNumbers(numbers, change) ==
  IF lineDelta(change) = 0 THEN numbers
  ELSE LET moved == {k \in DOMAIN numbers : numbers[k] > change.start}
           gone == {k \in moved : numbers[k] + lineDelta(change) < 0}
       IN [k \in DOMAIN numbers \ gone |->
             IF k \in moved THEN numbers[k] + lineDelta(change) ELSE numbers[k]]

\* a variant of the outer loop with one slip: the last change comes first
RECURSIVE adjustAll_lastFirst(_, _)
adjustAll_lastFirst(numbers, changes) ==
  IF changes = <<>> THEN numbers
  ELSE adjustNumbers(adjustAll_lastFirst(numbers, Tail(changes)), Head(changes))

\* the outer loop: the changes in the order of event.contentChanges
RECURSIVE adjustAll(_, _)
adjustAll(numbers, changes) ==
  IF changes = <<>> THEN numbers
  ELSE adjustAll(adjustNumbers(numbers, Head(changes)), Tail(changes))

\* a variant of hasChanges with one slip: set only where a mark is deleted
RECURSIVE hasChanges_deletedOnly(_, _)
hasChanges_deletedOnly(numbers, changes) ==
  IF changes = <<>> THEN FALSE
  ELSE \/ /\ lineDelta(Head(changes)) # 0
          /\ \E k \in DOMAIN numbers :
               numbers[k] > Head(changes).start /\ numbers[k] + lineDelta(Head(changes)) < 0
       \/ hasChanges_deletedOnly(adjustNumbers(numbers, Head(changes)), Tail(changes))

\* a variant of hasChanges with one slip: set for a mark on any line
RECURSIVE hasChanges_anyLine(_, _)
hasChanges_anyLine(numbers, changes) ==
  IF changes = <<>> THEN FALSE
  ELSE \/ /\ lineDelta(Head(changes)) # 0
          /\ DOMAIN numbers # {}
       \/ hasChanges_anyLine(adjustNumbers(numbers, Head(changes)), Tail(changes))

\* hasChanges at the end of the outer loop
RECURSIVE hasChanges(_, _)
hasChanges(numbers, changes) ==
  IF changes = <<>> THEN FALSE
  ELSE \/ /\ lineDelta(Head(changes)) # 0
          /\ \E k \in DOMAIN numbers : numbers[k] > Head(changes).start
       \/ hasChanges(adjustNumbers(numbers, Head(changes)), Tail(changes))

\* handleTextDocumentChange(event)
handleTextDocumentChange(nodes, filePath, changes) ==
  IF Len(changes) = 0 THEN nodes
  ELSE LET bookmark == findBookmarkByFilePath(nodes, filePath) IN
       IF bookmark = NULL THEN nodes
       ELSE assignBookmark(nodes, filePath,
                           [bookmark EXCEPT !.numbers = adjustAll(bookmark.numbers, changes)])

\* ---------------------------------------------------------------- file watcher
\* a variant of handleFileDelete with one slip: the whole tree is dropped
handleFileDelete_dropsAll(nodes, filePath) ==
  LET bookmark == findBookmarkByFilePath(nodes, filePath) IN
  IF bookmark = NULL THEN nodes ELSE <<>>

\* handleFileDelete(uri)
handleFileDelete(nodes, filePath) ==
  LET bookmark == findBookmarkByFilePath(nodes, filePath) IN
  IF bookmark = NULL THEN nodes ELSE removeBookmarkNode(nodes, bookmark.id)

\* handleFileRename(oldUri, newUri)
handleFileRename(nodes, oldPath, newPath) ==
  LET bookmark == findBookmarkByFilePath(nodes, oldPath) IN
  IF bookmark = NULL THEN nodes
  ELSE assignBookmark(nodes, oldPath, [bookmark EXCEPT !.filePath = newPath])

\* detectFileRename(): "return null"
detectFileRename == NULL

\* the watcher.onDidCreate callback
onDidCreate(nodes, filePath) ==
  LET renames == detectFileRename IN
  IF renames # NULL
  THEN handleFileRename(nodes, renames.oldUri, renames.newUri)
  ELSE nodes

\* the watcher.onDidDelete callback
onDidDelete(nodes, filePath) == handleFileDelete(nodes, filePath)

\* ---------------------------------------------------------------- folders and nodes
\* push onto the children of the folder found by findFolderById
RECURSIVE pushInto(_, _, _)
pushInto(nodes, folderId, child) ==
  IF nodes = <<>> THEN <<>>
  ELSE LET node == Head(nodes) IN
       IF node.type = "folder" /\ node.id = folderId
       THEN <<[node EXCEPT !.children = Append(node.children, child)]>> \o Tail(nodes)
       ELSE IF node.type = "folder" /\ findFolderById(node.children, folderId) # NULL
            THEN <<[node EXCEPT !.children = pushInto(node.children, folderId, child)]>>
                 \o Tail(nodes)
            ELSE <<node>> \o pushInto(Tail(nodes), folderId, child)

\* createFolder(name, parentId?); parentId = 0 is the omitted argument
NoParent == 0
createFolder(nodes, id, name, parentId) ==
  IF parentId # NoParent
  THEN IF findFolderById(nodes, parentId) # NULL
       THEN pushInto(nodes, parentId, NewFolder(id, name))
       ELSE nodes
  ELSE Append(nodes, NewFolder(id, name))

\* deleteBookmark(id) and deleteFolder(id)
deleteBookmark(nodes, id) == removeBookmarkNode(nodes, id)
deleteFolder_emptyOnly(nodes, id) ==
  IF findFolderById(nodes, id) # NULL /\ findFolderById(nodes, id).children # <<>>
  THEN nodes
  ELSE removeNode(nodes, id)

deleteFolder(nodes, id) == removeNode(nodes, id)

\* renameBookmark(id, label): label || undefined
renameBookmark(nodes, id, label) ==
  LET bookmark == findBookmarkById(nodes, id) IN
  IF bookmark = NULL THEN nodes
  ELSE assignNode(nodes, id,
                  [bookmark EXCEPT !.label = IF label = "" THEN NoLabel ELSE label])

\* renameFolder(id, name)
renameFolder(nodes, id, name) ==
  LET folder == findFolderById(nodes, id) IN
  IF folder = NULL THEN nodes
  ELSE assignNode(nodes, id, [folder EXCEPT !.name = name])

\* moveNode(nodeId, targetFolderId); targetFolderId = 0 is null
ToRoot == 0
moveNode_copies(nodes, nodeId, targetFolderId) ==
  LET taken == removeAndGetNode(nodes, nodeId) IN
  IF taken.node = NULL THEN nodes
  ELSE IF targetFolderId = ToRoot THEN Append(nodes, taken.node)
       ELSE IF findFolderById(nodes, targetFolderId) # NULL
            THEN pushInto(nodes, targetFolderId, taken.node)
            ELSE Append(nodes, taken.node)

moveNode(nodes, nodeId, targetFolderId) ==
  LET taken == removeAndGetNode(nodes, nodeId) IN
  IF taken.node = NULL THEN nodes
  ELSE IF targetFolderId = ToRoot THEN Append(taken.nodes, taken.node)
       ELSE IF findFolderById(taken.nodes, targetFolderId) # NULL
            THEN pushInto(taken.nodes, targetFolderId, taken.node)
            ELSE Append(taken.nodes, taken.node)

\* clearAllBookmarks()
clearAllBookmarks(nodes) == <<>>

\* ---------------------------------------------------------------- navigation
\* The adjacency queries of BookmarkStore, as section 4.3 of the
\* specification states them.  An entry is what a query returns: the number,
\* its line and the Bookmark node that holds it.
Entry(num, bookmark, line) == [num |-> num, bookmark |-> bookmark, line |-> line]

\* the keys of a numbers map, ascending
RECURSIVE Ascending(_)
Ascending(S) == IF S = {} THEN <<>> ELSE <<Min(S)>> \o Ascending(S \ {Min(S)})

\* numbersInFile: the active numbers of the file, sorted ascending
getBookmarkNumbersInFile(nodes, filePath) ==
  LET bookmark == findBookmarkByFilePath(nodes, filePath) IN
  IF bookmark = NULL THEN <<>> ELSE Ascending(DOMAIN bookmark.numbers)

\* every entry of the tree, in the order a traversal meets them
RECURSIVE EntriesInOrder(_)
EntriesInOrder(nodes) ==
  IF nodes = <<>> THEN <<>>
  ELSE LET node == Head(nodes) IN
       (IF node.type = "bookmark"
        THEN LET keys == Ascending(DOMAIN node.numbers)
             IN [i \in 1..Len(keys) |-> Entry(keys[i], node, node.numbers[keys[i]])]
        ELSE EntriesInOrder(node.children))
       \o EntriesInOrder(Tail(nodes))

\* the entries sorted by number: the entries of number n, then those of the
\* numbers above n; entries of one number keep their order
RECURSIVE SortedFrom(_, _)
SortedFrom(entries, n) ==
  IF \A i \in 1..Len(entries) : entries[i].num < n THEN <<>>
  ELSE SelectSeq(entries, LAMBDA e : e.num = n) \o SortedFrom(entries, n + 1)

\* allMarksSorted: every entry of the tree, sorted by number, then by
\* insertion order
getAllBookmarkEntries(nodes) == SortedFrom(EntriesInOrder(nodes), 0)

\* adjacent over a sorted sequence of entries: the first entry above
\* currentNum (next), the last one below it (previous), wrapping around at
\* the ends; nothing when there is no entry
Adjacent(entries, currentNum, direction) ==
  IF entries = <<>> THEN NULL
  ELSE IF direction = "next"
       THEN LET above == SelectSeq(entries, LAMBDA e : e.num > currentNum)
            IN IF above # <<>> THEN Head(above) ELSE Head(entries)
       ELSE LET below == SelectSeq(entries, LAMBDA e : e.num < currentNum)
            IN IF below # <<>> THEN below[Len(below)] ELSE entries[Len(entries)]

\* adjacent(currentNumber, direction, scope) with one file as the scope
getAdjacentBookmarkInFile(nodes, filePath, currentNum, direction) ==
  LET bookmark == findBookmarkByFilePath(nodes, filePath)
      nums == getBookmarkNumbersInFile(nodes, filePath)
  IN Adjacent([i \in 1..Len(nums) |-> Entry(nums[i], bookmark, bookmark.numbers[nums[i]])],
              currentNum, direction)

\* adjacent(currentNumber, direction, scope) with the whole tree as the scope
getAdjacentBookmarkGlobal(nodes, currentNum, direction) ==
  Adjacent(getAllBookmarkEntries(nodes), currentNum, direction)

\* handleJumpToAdjacentBookmark: the number the jump starts from.  It is the
\* first number of the file's Bookmark that sits on the cursor line; with a
\* Bookmark and no number on that line it is a sentinel, -1 for next and 10
\* for previous; without a Bookmark it is -1.
BeforeFirst == 0 - 1
AfterLast == 10
currentNum_fromZero(nodes, filePath, currentLine, direction) ==
  LET currentBookmark == findBookmarkByFilePath(nodes, filePath) IN
  IF currentBookmark = NULL THEN 0
  ELSE LET entry == {n \in DOMAIN currentBookmark.numbers :
                       currentBookmark.numbers[n] = currentLine}
       IN IF entry # {} THEN Min(entry)
          ELSE IF direction = "next" THEN 0 ELSE AfterLast
currentNum(nodes, filePath, currentLine, direction) ==
  LET currentBookmark == findBookmarkByFilePath(nodes, filePath) IN
  IF currentBookmark = NULL THEN BeforeFirst
  ELSE LET entry == {n \in DOMAIN currentBookmark.numbers :
                       currentBookmark.numbers[n] = currentLine}
       IN IF entry # {} THEN Min(entry)
          ELSE IF direction = "next" THEN BeforeFirst ELSE AfterLast

\* handleJumpToAdjacentBookmark: the entry the editor jumps to, NULL when a
\* warning is shown instead
handleJumpToAdjacentBookmark(nodes, navigateThroughAllFiles, filePath, currentLine, direction) ==
  LET from == currentNum(nodes, filePath, currentLine, direction) IN
  IF navigateThroughAllFiles
  THEN getAdjacentBookmarkGlobal(nodes, from, direction)
  ELSE getAdjacentBookmarkInFile(nodes, filePath, from, direction)

\* ---------------------------------------------------------------- LRUCache
\* A Map is the sequence of its entries in insertion order; undefined is what
\* Map.get returns for a key that is not there, and a value like any other.
undefined == NULL
MapEntry(key, value) == [key |-> key, value |-> value]
MapKeys(map) == {map[i].key : i \in DOMAIN map}
MapHas(map, key) == key \in MapKeys(map)
MapGet(map, key) ==
  IF MapHas(map, key) THEN (CHOOSE e \in {map[i] : i \in DOMAIN map} : e.key = key).value
  ELSE undefined
MapDelete(map, key) == SelectSeq(map, LAMBDA e : e.key # key)
\* Map.set keeps the place of a key that is there and appends a new one
MapSet(map, key, value) ==
  IF MapHas(map, key)
  THEN [i \in DOMAIN map |-> IF map[i].key = key THEN MapEntry(key, value) ELSE map[i]]
  ELSE Append(map, MapEntry(key, value))

\* constructor(maxSize = 100)
DefaultMaxSize == 100

\* get(key): the value returned, and the Map afterwards: an entry whose value
\* is not undefined is moved to the end
get(map, key) ==
  LET value == MapGet(map, key) IN
  [value |-> value,
   cache |-> IF value # undefined THEN MapSet(MapDelete(map, key), key, value) ELSE map]

\* this.cache.keys().next().value: the first key, if there is one
firstKey(map) == IF map = <<>> THEN <<>> ELSE <<Head(map).key>>

\* set(key, value): the Map afterwards
set_noEviction(map, mSize, key, value) ==
  MapSet(IF MapHas(map, key) THEN MapDelete(map, key) ELSE map, key, value)
set(map, mSize, key, value) ==
  LET added == MapSet(IF MapHas(map, key) THEN MapDelete(map, key) ELSE map, key, value)
  IN IF Len(added) > mSize /\ firstKey(added) # <<>>
     THEN MapDelete(added, firstKey(added)[1])
     ELSE added

has(map, key) == MapHas(map, key)
clear_keepsEntries(map) == map
clear(map) == <<>>
size(map) == Len(map)

\* ---------------------------------------------------------------- storage: values
\* A JavaScript value, as JSON.parse returns it and as save receives it.
\* JUndefined is what reading a property that is not there gives.
JUndefined == [t |-> "undefined"]
JNull == [t |-> "null"]
JString(s) == [t |-> "string", string |-> s]
JNumber(n) == [t |-> "number", number |-> n]
JArray(a) == [t |-> "array", array |-> a]
JObject(version, array) == [t |-> "object", version |-> version, items |-> array]

\* a FilemarkState: { version, items }
State(version, array) == JObject(JString(version), JArray(array))

\* getDefaultState()
getDefaultState == State("1.0", <<>>)

\* what a file holds: nothing (reading it fails with ENOENT), something that
\* cannot be read (reading it fails with another error), or a text, which is
\* JSON or is not
Missing == [kind |-> "missing"]
Unreadable == [kind |-> "unreadable"]
Json(value) == [kind |-> "text", json |-> TRUE, value |-> value]
NotJson == [kind |-> "text", json |-> FALSE, value |-> JUndefined]

\* JSON.stringify(state, null, 2), as the content of the file written
stringify(state) == Json(state)

\* JSON.parse(content): the value of a JSON text, SyntaxError for other text
SyntaxError == [t |-> "SyntaxError"]
parse(content) == IF content.json THEN content.value ELSE SyntaxError

\* value[name] for a value that is not null
Field(value, name) == IF value.t = "object" THEN value[name] ELSE JUndefined

\* !!value
Truthy(value) ==
  CASE value.t \in {"undefined", "null"} -> FALSE
    [] value.t = "string" -> value.string # ""
    [] value.t = "number" -> value.number # 0
    [] OTHER -> TRUE

\* Array.isArray(value)
IsArray(value) == value.t = "array"

recoverOrDefault_discards(data) == getDefaultState

\* recoverOrDefault(data)
recoverOrDefault(data) ==
  IF data.t \in {"object", "array"}
  THEN JObject(IF Field(data, "version").t = "string"
                 THEN Field(data, "version") ELSE JString("1.0"),
               IF IsArray(Field(data, "items"))
                 THEN Field(data, "items") ELSE JArray(<<>>))
  ELSE getDefaultState

\* the errors of FilemarkError that load and the timer callback hand to
\* errorHandler.handle, which shows them to the user
NoError == "none"
\* the recovery actions load offers with an error
NoOffer == "none"
BackupAndReset == "createBackup, resetStorage"
Reset == "resetStorage"

\* load() from readFile on: content is what the file held when it was read.
\* result is the state returned, error the error handled, offer the recovery
\* action offered with it, backup whether load goes on to createBackup()
Outcome(result, error, offer, backup) ==
  [result |-> result, error |-> error, offer |-> offer, backup |-> backup]

\* the try block of load() once readFile has returned content
loadText(content) ==
  LET parsed == parse(content) IN
  IF parsed = SyntaxError
  THEN Outcome(getDefaultState, "jsonParse", BackupAndReset, TRUE)
  ELSE IF parsed = JNull   \* parsed.version throws a TypeError
  THEN Outcome(getDefaultState, "storageRead", NoOffer, FALSE)
  ELSE IF ~Truthy(Field(parsed, "version")) \/ ~IsArray(Field(parsed, "items"))
  THEN Outcome(recoverOrDefault(parsed), "corruptedData", Reset, FALSE)
  ELSE Outcome(parsed, NoError, NoOffer, FALSE)

load_reportsMissing(content) ==
  IF content.kind # "text"
  THEN Outcome(getDefaultState, "storageRead", NoOffer, FALSE)
  ELSE loadText(content)

load(content) ==
  IF content = Missing THEN Outcome(getDefaultState, NoError, NoOffer, FALSE)
  ELSE IF content = Unreadable
  THEN Outcome(getDefaultState, "storageRead", NoOffer, FALSE)
  ELSE loadText(content)

\* ---- the values the specification draws from
\* the items of a stored state
StoredItems == {<<>>, <<NewBookmark(1, MainFile, 0, 0)>>}
\* the states save is called with
SavedStates == {State("1.0", items_) : items_ \in StoredItems}
\* the values a version or an items property of a stored object can have
Properties ==
  {JUndefined, JNull, JString(""), JString("1.0"), JString("2.0"), JNumber(0),
   JNumber(5), JString("not an array")}
    \cup {JArray(items_) : items_ \in StoredItems}
\* the values a JSON text can have
Values ==
  {JNull, JNumber(7), JString("text"), JArray(<<>>)}
    \cup {JObject(version, items_) : version \in Properties, items_ \in Properties}
\* what the file at the storage path can hold
Contents == {Missing, Unreadable, NotJson} \cup {Json(value) : value \in Values}

\* ---- the state of the service
NoTimer == 0
Idle == "idle"
Done == "done"
NotLoading == [at |-> Idle]

\* history: how many times fs.writeFile has written the state of each call
NoWrites == [call \in 1..MaxSaves |-> 0]

\* a service that was never asked anything, over missing files
StorageIdle ==
  /\ saveInProject = TRUE
  /\ document = Missing
  /\ legacy = Missing
  /\ backups = <<>>
  /\ timers = {}
  /\ saveTimeout = NoTimer
  /\ writing = <<>>
  /\ migration = Done
  /\ loading = NotLoading
  /\ offers = {}
  /\ recovering = Idle
  /\ reported = {}
  /\ calls = [save |-> <<>>, load |-> 0, superseded |-> {}, ran |-> {}, wrote |-> NoWrites]

\* ---------------------------------------------------------------- state machine
\* constructor: this.state = { version: '1.0', items: [] }; in Spec and in
\* SpecMarks the storage service is idle, its files are missing, and the
\* actions leave it alone
\* ---------------------------------------------------------------- debounceAsync
\* timeoutId, latestResolve and latestReject are undefined: 0 stands for it,
\* a call is named by its place in the history of the calls
NoCall == 0
Unsettled == [kind |-> "pending"]

\* the closure after debounceAsync(fn, delay), before any call
DebounceIdle ==
  debounced = [timeoutId |-> NoCall, latest |-> NoCall, timers |-> {},
               running |-> {}, args |-> <<>>, settled |-> <<>>]

\* resolve(result) or reject(error) of the promise of a call; settling a
\* promise that is settled does nothing
Settle(settled, call, kind, args) ==
  IF call # NoCall /\ settled[call] = Unsettled
  THEN [settled EXCEPT ![call] = [kind |-> kind, args |-> args]]
  ELSE settled

\* the finally block of the timer callback
Finally(d) == [d EXCEPT !.timeoutId = NoCall, !.latest = NoCall]

\* no cache in use
CacheIdle ==
  /\ cache = <<>>
  /\ maxSize = DefaultMaxSize
  /\ recency = <<>>

Init == items = <<>> /\ StorageIdle /\ CacheIdle /\ notified = <<>> /\ DebounceIdle

\* the number of folders of the tree
RECURSIVE CountFolders(_)
CountFolders(nodes) ==
  IF nodes = <<>> THEN 0
  ELSE (IF Head(nodes).type = "folder" THEN 1 + CountFolders(Head(nodes).children) ELSE 0)
       + CountFolders(Tail(nodes))

Toggle(FS, NS, LS) ==
  \E filePath \in FS, num \in NS, line \in LS :
    items' = toggleBookmark(items, uuidv4(items), filePath, num, line) /\ UNCHANGED <<storageVars, cacheVars, eventVars, asyncVars>>

Add(FS, NS, LS) ==
  \E filePath \in FS, num \in NS, line \in LS :
    items' = addBookmark(items, uuidv4(items), filePath, num, line) /\ UNCHANGED <<storageVars, cacheVars, eventVars, asyncVars>>

Remove(FS, NS) ==
  \E filePath \in FS, num \in NS :
    items' = removeBookmarkNumber(items, filePath, num) /\ UNCHANGED <<storageVars, cacheVars, eventVars, asyncVars>>

\* the content changes of an edit event in a document of lines LS: the range
\* ends at most at the start of the line after the last one
ChangesIn(LS) ==
  {Change(s, e, k) : s \in LS, e \in LS \cup {Max(LS) + 1}, k \in 0..MaxInserted}
ChangeLists(LS) ==
  {<<>>} \cup {<<c>> : c \in {x \in ChangesIn(LS) : x.start <= x.end}}

\* onDidChangeTextDocument; the marks stay within the lines LS
TextChange(FS, LS) ==
  \E filePath \in FS, changes \in ChangeLists(LS) :
    LET bookmark == findBookmarkByFilePath(items, filePath) IN
    /\ bookmark # NULL =>
         \A k \in DOMAIN adjustAll(bookmark.numbers, changes) :
            adjustAll(bookmark.numbers, changes)[k] \in LS
    /\ items' = handleTextDocumentChange(items, filePath, changes) /\ UNCHANGED <<storageVars, cacheVars, eventVars, asyncVars>>

\* ---- the actions of both specifications
ClearBookmarksInFile ==
  \E filePath \in Files : items' = clearBookmarksInFile(items, filePath) /\ UNCHANGED <<storageVars, cacheVars, eventVars, asyncVars>>

ClearAllBookmarks == items' = clearAllBookmarks(items) /\ UNCHANGED <<storageVars, cacheVars, eventVars, asyncVars>>

\* the host reports a deleted file
FileDeleted ==
  \E filePath \in Files : items' = onDidDelete(items, filePath) /\ UNCHANGED <<storageVars, cacheVars, eventVars, asyncVars>>

\* the host reports a created file
FileCreated ==
  \E filePath \in Files : items' = onDidCreate(items, filePath) /\ UNCHANGED <<storageVars, cacheVars, eventVars, asyncVars>>

\* the host renames a file: the watcher reports the old path deleted and the
\* new path created
fileRenamed(nodes, oldPath, newPath) == onDidCreate(onDidDelete(nodes, oldPath), newPath)

FileRenamed ==
  \E oldPath \in Files, newPath \in Files :
    /\ oldPath # newPath
    /\ items' = fileRenamed(items, oldPath, newPath) /\ UNCHANGED <<storageVars, cacheVars, eventVars, asyncVars>>

DeleteBookmark ==
  \E id \in Ids : items' = deleteBookmark(items, id) /\ UNCHANGED <<storageVars, cacheVars, eventVars, asyncVars>>

\* ---- SpecMarks
OtherFiles == Files \ {MainFile}

MarksToggleBookmark ==
  \/ Toggle({MainFile}, Nums, Lines)
  \/ Toggle(OtherFiles, OtherNums, OtherLines)
MarksAddBookmark ==
  \/ Add({MainFile}, Nums, Lines)
  \/ Add(OtherFiles, OtherNums, OtherLines)
MarksRemoveBookmarkNumber ==
  \/ Remove({MainFile}, Nums)
  \/ Remove(OtherFiles, OtherNums)
MarksTextDocumentChange ==
  \/ TextChange({MainFile}, Lines)
  \/ TextChange(OtherFiles, OtherLines)

\* handleDrop with external files: the dropped URIs in order; a URI that
\* is a directory, or cannot be stat'ed, is skipped
RECURSIVE handleDrop(_, _)
handleDrop(nodes, uris) ==
  IF uris = <<>> THEN nodes
  ELSE LET uri == Head(uris) IN
       handleDrop(IF uri.isFile
                  THEN toggleBookmark(nodes, uuidv4(nodes), uri.filePath, 0, 0)
                  ELSE nodes,
                  Tail(uris))

\* the URI lists of a drop: one URI, or two URIs of different paths, each a
\* file or a directory
DroppedUris == [filePath : Files, isFile : BOOLEAN]
Drops ==
  {<<u>> : u \in DroppedUris}
    \cup {d \in {<<u1, u2>> : u1 \in DroppedUris, u2 \in DroppedUris} :
            d[1].filePath # d[2].filePath}

HandleDrop ==
  \E uris \in Drops :
    items' = handleDrop(items, uris) /\ UNCHANGED <<storageVars, cacheVars, eventVars, asyncVars>>

NextMarks ==
  \/ HandleDrop
  \/ MarksToggleBookmark
  \/ MarksAddBookmark
  \/ MarksRemoveBookmarkNumber
  \/ MarksTextDocumentChange
  \/ ClearBookmarksInFile
  \/ ClearAllBookmarks
  \/ FileDeleted
  \/ FileCreated
  \/ FileRenamed
  \/ DeleteBookmark

SpecMarks == Init /\ [][NextMarks]_vars

\* ---- Spec
ToggleBookmark == Toggle(Files, TreeNums, TreeLines)
AddBookmark == Add(Files, TreeNums, TreeLines)
RemoveBookmarkNumber == Remove(Files, TreeNums)
TextDocumentChange == TextChange(Files, TreeLines)

CreateFolder ==
  \E name \in Names, parentId \in {NoParent} \cup Ids :
    /\ CountFolders(items) < MaxFolders
    /\ items' = createFolder(items, uuidv4(items), name, parentId) /\ UNCHANGED <<storageVars, cacheVars, eventVars, asyncVars>>

DeleteFolder ==
  \E id \in Ids : items' = deleteFolder(items, id) /\ UNCHANGED <<storageVars, cacheVars, eventVars, asyncVars>>

RenameBookmark ==
  \E id \in Ids, label \in Labels : items' = renameBookmark(items, id, label) /\ UNCHANGED <<storageVars, cacheVars, eventVars, asyncVars>>

RenameFolder ==
  \E id \in Ids, name \in Names : items' = renameFolder(items, id, name) /\ UNCHANGED <<storageVars, cacheVars, eventVars, asyncVars>>

MoveNode ==
  \E nodeId \in Ids, targetFolderId \in {ToRoot} \cup Ids :
    items' = moveNode(items, nodeId, targetFolderId) /\ UNCHANGED <<storageVars, cacheVars, eventVars, asyncVars>>

Next ==
  \/ ToggleBookmark
  \/ AddBookmark
  \/ RemoveBookmarkNumber
  \/ TextDocumentChange
  \/ ClearBookmarksInFile
  \/ ClearAllBookmarks
  \/ FileDeleted
  \/ FileCreated
  \/ FileRenamed
  \/ DeleteBookmark
  \/ CreateFolder
  \/ DeleteFolder
  \/ RenameBookmark
  \/ RenameFolder
  \/ MoveNode

Spec == Init /\ [][Next]_vars

\* ---------------------------------------------------------------- SpecFolders
\* The store with nested folders: the bookmarks of one file, with few
\* numbers and lines, in a tree of at most MaxNested folders.  With one file
\* the ids leave room for one folder more than in Spec.
MaxNested == MaxFolders + 1

FoldersToggleBookmark == Toggle({MainFile}, OtherNums, OtherLines)
FoldersAddBookmark == Add({MainFile}, OtherNums, OtherLines)
FoldersRemoveBookmarkNumber == Remove({MainFile}, OtherNums)

FoldersCreateFolder ==
  \E name \in {"F"}, parentId \in {NoParent} \cup Ids :
    /\ CountFolders(items) < MaxNested
    /\ items' = createFolder(items, uuidv4(items), name, parentId) /\ UNCHANGED <<storageVars, cacheVars, eventVars, asyncVars>>

NextFolders ==
  \/ FoldersToggleBookmark
  \/ FoldersAddBookmark
  \/ FoldersRemoveBookmarkNumber
  \/ ClearBookmarksInFile
  \/ ClearAllBookmarks
  \/ DeleteBookmark
  \/ RenameBookmark
  \/ FoldersCreateFolder
  \/ DeleteFolder
  \/ MoveNode

SpecFolders == Init /\ [][NextFolders]_vars

\* ---------------------------------------------------------------- SpecEdits
\* The store with the marks of one file: every number and line of MainFile,
\* set by toggleBookmark and moved by edit events.
EditsToggleBookmark == Toggle({MainFile}, Nums, Lines)
EditsTextDocumentChange == TextChange({MainFile}, Lines)

NextEdits ==
  \/ EditsToggleBookmark
  \/ EditsTextDocumentChange
  \/ RenameBookmark

SpecEdits == Init /\ [][NextEdits]_vars

\* ---------------------------------------------------------------- SpecAuto
\* handleAutoBookmark (src/src/extension.ts): the command on the cursor line
\* of the active editor.  The loop "for (let i = 0; i <= 9; i++)" picks the
\* first number that Object.keys(bookmark.numbers) does not hold; targetNum
\* stays 0 when the loop finds none.
LastNumber == 9
AllNumbers == 0..LastNumber

\* a variant with one slip: the search starts at 1
targetNum_fromOne(usedNumbers) ==
  IF AllNumbers \ (usedNumbers \cup {0}) = {} THEN 0
  ELSE Min(AllNumbers \ (usedNumbers \cup {0}))

targetNum(usedNumbers) ==
  IF AllNumbers \ usedNumbers = {} THEN 0 ELSE Min(AllNumbers \ usedNumbers)

handleAutoBookmark(nodes, id, filePath, line) ==
  LET bookmark == findBookmarkByFilePath(nodes, filePath)
      existingNum == IF bookmark = NULL THEN {} ELSE NumbersAtLine(bookmark.numbers, line)
      usedNumbers == IF bookmark = NULL THEN {} ELSE DOMAIN bookmark.numbers
  IN IF existingNum # {}
     THEN removeBookmarkNumber(nodes, filePath, Min(existingNum))
     ELSE toggleBookmark(nodes, id, filePath, targetNum(usedNumbers), line)

\* The file of the active editor is MainFile.  Number k was set on line
\* k + 1; the cursor is on one of the lines 0..MaxAutoLine.  The specification
\* starts with few numbers in use or with few numbers free.
HomeLine(k) == k + 1
AutoLines == 0..MaxAutoLine
FewNumbers ==
  {S \in SUBSET AllNumbers : Cardinality(S) <= 2 \/ Cardinality(S) >= LastNumber - 1}
AutoTrees ==
  {<<>>} \cup
  {<<[NewBookmark(1, MainFile, 0, 0) EXCEPT !.numbers = [k \in S |-> HomeLine(k)]]>> :
     S \in FewNumbers \ {{}}}

InitAuto == items \in AutoTrees /\ StorageIdle /\ CacheIdle /\ notified = <<>> /\ DebounceIdle

AutoBookmark ==
  \E line \in AutoLines :
    items' = handleAutoBookmark(items, uuidv4(items), MainFile, line) /\ UNCHANGED <<storageVars, cacheVars, eventVars, asyncVars>>

\* the command "add bookmark" puts a number on a line that may carry one
AutoAddBookmark ==
  \E num \in {0, LastNumber}, line \in AutoLines :
    items' = addBookmark(items, uuidv4(items), MainFile, num, line) /\ UNCHANGED <<storageVars, cacheVars, eventVars, asyncVars>>

NextAuto ==
  \/ AutoBookmark
  \/ AutoAddBookmark

SpecAuto == InitAuto /\ [][NextAuto]_vars

\* ---------------------------------------------------------------- SpecDebounce
\* One function made by debounceAsync(fn, delay): its callers, the host's
\* timers and the completion of fn in any order.
DebounceArgs == 1..2
StoreIdle == items = <<>> /\ StorageIdle /\ CacheIdle /\ notified = <<>>
DebounceFrame == UNCHANGED <<items, storageVars, cacheVars, eventVars>>

InitDebounce == StoreIdle /\ DebounceIdle

\* a call of the debounced function: clearTimeout(timeoutId) when timeoutId
\* is set, then the promise's resolve and reject become the latest ones and
\* a new timer is set
DebouncedCall ==
  \E args \in DebounceArgs :
    LET call == Len(debounced.args) + 1 IN
    /\ Len(debounced.args) < MaxCalls
    /\ debounced' =
         [debounced EXCEPT
            !.timers = (IF debounced.timeoutId # NoCall
                        THEN @ \ {debounced.timeoutId} ELSE @) \cup {call},
            !.timeoutId = call,
            !.latest = call,
            !.args = Append(@, args),
            !.settled = Append(@, Unsettled)]
    /\ DebounceFrame

\* the delay of a timer has passed: its callback calls fn(...args) and waits
DebounceTimerFires ==
  \E call \in debounced.timers :
    /\ debounced' = [debounced EXCEPT !.timers = @ \ {call}, !.running = @ \cup {call}]
    /\ DebounceFrame

\* the promise of fn(...args) is fulfilled: latestResolve(result), finally
FnReturns ==
  \E call \in debounced.running :
    /\ debounced' =
         Finally([debounced EXCEPT
                    !.running = @ \ {call},
                    !.settled = Settle(@, debounced.latest, "resolved", debounced.args[call])])
    /\ DebounceFrame

\* the promise of fn(...args) is rejected: latestReject(error), finally
FnThrows ==
  \E call \in debounced.running :
    /\ debounced' =
         Finally([debounced EXCEPT
                    !.running = @ \ {call},
                    !.settled = Settle(@, debounced.latest, "rejected", debounced.args[call])])
    /\ DebounceFrame

NextDebounce ==
  \/ DebouncedCall
  \/ DebounceTimerFires
  \/ FnReturns
  \/ FnThrows

SpecDebounce == InitDebounce /\ [][NextDebounce]_vars

\* ---------------------------------------------------------------- SpecStorage
\* StorageService alone: its callers, its timer, the user answering its
\* messages, and the file system completing its requests in any order.

\* the documents the service can find at start
InitialDocuments ==
  {Missing, Unreadable, NotJson,
   Json(State("1.0", <<NewBookmark(1, MainFile, 0, 0)>>)),
   Json(JObject(JUndefined, JArray(<<NewBookmark(1, MainFile, 0, 0)>>)))}
\* the legacy global file, when there is one
LegacyDocument == Json(State("1.0", <<NewBookmark(1, MainFile, 0, 1)>>))

\* constructor: with saveBookmarksInProject unset, migrateLegacyGlobalStorage
\* starts its async body and returns
InitStorage ==
  /\ items = <<>>
  /\ saveInProject \in BOOLEAN
  /\ document \in InitialDocuments
  /\ legacy \in (IF saveInProject THEN {Missing} ELSE {Missing, LegacyDocument})
  /\ migration = (IF saveInProject THEN Done ELSE "statLegacy")
  /\ backups = <<>>
  /\ timers = {}
  /\ saveTimeout = NoTimer
  /\ writing = <<>>
  /\ loading = NotLoading
  /\ offers = {}
  /\ recovering = Idle
  /\ reported = {}
  /\ calls = [save |-> <<>>, load |-> 0, superseded |-> {}, ran |-> {}, wrote |-> NoWrites]
  /\ CacheIdle
  /\ notified = <<>> /\ DebounceIdle

\* the sequence without its i-th element
Without(seq, i) == SubSeq(seq, 1, i - 1) \o SubSeq(seq, i + 1, Len(seq))

\* a timer set by a call of save: its callback will write state
Timer(call, state) == [call |-> call, state |-> state]
Pending(call) == \E timer \in timers : timer.call = call

\* save(state), call being the number of this call: clearTimeout(saveTimeout),
\* then setTimeout; the timers that are pending afterwards
save_keepsTimer(pending, handle, call, state) == pending \cup {Timer(call, state)}

save(pending, handle, call, state) ==
  {timer \in pending : timer.call # handle} \cup {Timer(call, state)}

\* history: the calls of save that another call followed while their timer was
\* pending
Superseded(history) ==
  IF Pending(saveTimeout) THEN history \cup {saveTimeout} ELSE history

Save ==
  \E state \in SavedStates :
    LET call == Len(calls.save) + 1 IN
    /\ call <= MaxSaves
    /\ timers' = save(timers, saveTimeout, call, state)
    /\ saveTimeout' = call
    /\ calls' = [calls EXCEPT !.save = Append(@, state),
                              !.superseded = Superseded(@)]
    /\ UNCHANGED <<items, cacheVars, eventVars, asyncVars, saveInProject, document, legacy, backups, writing,
                   migration, loading, offers, recovering, reported>>

\* DEBOUNCE_DELAY after a setTimeout that no clearTimeout followed: the
\* callback starts and waits for fs.mkdir
SaveTimeoutFires ==
  \E timer \in timers :
    /\ Len(writing) < MaxWriting
    /\ timers' = timers \ {timer}
    /\ writing' = Append(writing, [call |-> timer.call, state |-> timer.state, at |-> "mkdir"])
    /\ calls' = [calls EXCEPT !.ran = @ \cup {timer.call}]
    /\ UNCHANGED <<items, cacheVars, eventVars, asyncVars, saveInProject, document, legacy, backups, saveTimeout,
                   migration, loading, offers, recovering, reported>>

\* the state a timer callback closes over is an object: save(this.state) of
\* BookmarkStore hands over the store's own state, which the store goes on
\* changing, and JSON.stringify reads it when fs.writeFile is called
ThisState == [ref |-> "this.state"]
Deref(state, nodes) == IF state = ThisState THEN State("1.0", nodes) ELSE state

\* fs.mkdir has made the directory: the callback evaluates
\* JSON.stringify(state) and waits for fs.writeFile
WriteMkdir ==
  \E i \in DOMAIN writing :
    /\ writing[i].at = "mkdir"
    /\ writing' = [writing EXCEPT ![i].at = "writeFile", ![i].state = Deref(@, items)]
    /\ UNCHANGED <<items, cacheVars, eventVars, asyncVars, saveInProject, document, legacy, backups, timers,
                   saveTimeout, migration, loading, offers, recovering, reported, calls>>

\* fs.writeFile has written JSON.stringify(state): the callback returns
WriteFile ==
  \E i \in DOMAIN writing :
    /\ writing[i].at = "writeFile"
    /\ document' = stringify(writing[i].state)
    /\ writing' = Without(writing, i)
    /\ calls' = [calls EXCEPT !.wrote[writing[i].call] = @ + 1]
    /\ UNCHANGED <<items, cacheVars, eventVars, asyncVars, saveInProject, legacy, backups, timers, saveTimeout,
                   migration, loading, offers, recovering, reported>>

\* a variant of WriteFails with one slip: the error is swallowed
WriteFails_silent ==
  \E i \in DOMAIN writing :
    /\ writing' = Without(writing, i)
    /\ UNCHANGED <<items, cacheVars, eventVars, asyncVars, saveInProject, document, legacy, backups, timers,
                   saveTimeout, migration, loading, offers, recovering, reported, calls>>

\* fs.mkdir or fs.writeFile fails: the callback hands storageWrite to
\* errorHandler.handle and returns
WriteFails ==
  \E i \in DOMAIN writing :
    /\ writing' = Without(writing, i)
    /\ reported' = reported \cup {"storageWrite"}
    /\ UNCHANGED <<items, cacheVars, eventVars, asyncVars, saveInProject, document, legacy, backups, timers,
                   saveTimeout, migration, loading, offers, recovering, calls>>

\* ---- migrateLegacyGlobalStorage, the async body
\* fs.stat(legacyPath): ENOENT ends the migration
MigrationStatLegacy ==
  /\ migration = "statLegacy"
  /\ migration' = (IF legacy = Missing THEN Done ELSE "statTarget")
  /\ UNCHANGED <<items, cacheVars, eventVars, asyncVars, saveInProject, document, legacy, backups, timers, saveTimeout,
                 writing, loading, offers, recovering, reported, calls>>

\* fs.stat(targetPath): the migration goes on only when it fails with ENOENT
MigrationStatTarget ==
  /\ migration = "statTarget"
  /\ migration' = (IF document = Missing THEN "rename" ELSE Done)
  /\ UNCHANGED <<items, cacheVars, eventVars, asyncVars, saveInProject, document, legacy, backups, timers, saveTimeout,
                 writing, loading, offers, recovering, reported, calls>>

\* fs.mkdir, then fs.rename(legacyPath, targetPath): rename replaces the
\* target when there is one
MigrationRename ==
  /\ migration = "rename"
  /\ migration' = Done
  /\ document' = legacy
  /\ legacy' = Missing
  /\ UNCHANGED <<items, cacheVars, eventVars, asyncVars, saveInProject, backups, timers, saveTimeout, writing,
                 loading, offers, recovering, reported, calls>>

\* a request of the migration fails with another error: it is handled
\* silently and the migration ends
MigrationFails ==
  /\ migration \in {"statLegacy", "statTarget", "rename"}
  /\ migration' = Done
  /\ UNCHANGED <<items, cacheVars, eventVars, asyncVars, saveInProject, document, legacy, backups, timers, saveTimeout,
                 writing, loading, offers, recovering, reported, calls>>

\* ---- load()
\* load() is called and waits for fs.readFile
LoadCall ==
  /\ loading.at \in {Idle, Done}
  /\ calls.load < MaxLoads
  /\ loading' = [at |-> "readFile"]
  /\ calls' = [calls EXCEPT !.load = @ + 1]
  /\ UNCHANGED <<items, cacheVars, eventVars, asyncVars, saveInProject, document, legacy, backups, timers, saveTimeout,
                 writing, migration, offers, recovering, reported>>

\* fs.readFile returns or throws; load parses and validates, hands its error
\* to errorHandler.handle and either returns (Done) or waits for createBackup
LoadReadFile ==
  /\ loading.at = "readFile"
  /\ LET outcome == load(document) IN
     /\ loading' = [at |-> IF outcome.backup THEN "createBackup" ELSE Done,
                    read |-> document, result |-> outcome.result,
                    error |-> outcome.error]
     /\ reported' = (IF outcome.error = NoError THEN reported
                     ELSE reported \cup {outcome.error})
     /\ offers' = (IF outcome.offer = NoOffer THEN offers
                   ELSE offers \cup {outcome.offer})
  /\ UNCHANGED <<items, cacheVars, eventVars, asyncVars, saveInProject, document, legacy, backups, timers, saveTimeout,
                 writing, migration, recovering, calls>>

\* createBackup(): fs.copyFile(storagePath, backupPath) copies what the file
\* holds now to a new backup file (Date.now() in its name); when the file
\* cannot be copied the failure is handled silently.  by is history: who
\* called createBackup.
createBackup(copies, content, by) ==
  IF content.kind = "text" THEN Append(copies, [content |-> content, by |-> by])
  ELSE copies

\* createBackup() called by load returns, and load returns the default state
LoadCreateBackup ==
  /\ loading.at = "createBackup"
  /\ backups' = createBackup(backups, document, "load")
  /\ loading' = [loading EXCEPT !.at = Done]
  /\ UNCHANGED <<items, cacheVars, eventVars, asyncVars, saveInProject, document, legacy, timers, saveTimeout,
                 writing, migration, offers, recovering, reported, calls>>

\* ---- the recovery actions (ErrorHandler.showUserMessage)
\* the user chooses the button of the message: recovery.action() starts (a
\* message the user closes is an offer that is never taken)
TakeOffer ==
  \E offer \in offers :
    /\ recovering = Idle
    /\ offers' = offers \ {offer}
    /\ recovering' = (IF offer = BackupAndReset THEN "createBackup" ELSE "resetStorage")
    /\ UNCHANGED <<items, cacheVars, eventVars, asyncVars, saveInProject, document, legacy, backups, timers, saveTimeout,
                   writing, migration, loading, reported, calls>>

\* createBackup() called by the recovery action returns
RecoveryCreateBackup ==
  /\ recovering = "createBackup"
  /\ backups' = createBackup(backups, document, "recovery")
  /\ recovering' = "resetStorage"
  /\ UNCHANGED <<items, cacheVars, eventVars, asyncVars, saveInProject, document, legacy, timers, saveTimeout,
                 writing, migration, loading, offers, reported, calls>>

\* resetStorage(): fs.unlink(storagePath); its failure is handled silently
RecoveryResetStorage ==
  /\ recovering = "resetStorage"
  /\ document' = Missing
  /\ recovering' = Idle
  /\ UNCHANGED <<items, cacheVars, eventVars, asyncVars, saveInProject, legacy, backups, timers, saveTimeout,
                 writing, migration, loading, offers, reported, calls>>

NextStorage ==
  \/ Save
  \/ SaveTimeoutFires
  \/ WriteMkdir
  \/ WriteFile
  \/ WriteFails
  \/ MigrationStatLegacy
  \/ MigrationStatTarget
  \/ MigrationRename
  \/ MigrationFails
  \/ LoadCall
  \/ LoadReadFile
  \/ LoadCreateBackup
  \/ TakeOffer
  \/ RecoveryCreateBackup
  \/ RecoveryResetStorage

SpecStorage == InitStorage /\ [][NextStorage]_vars

\* ---------------------------------------------------------------- SpecLoad
\* load() and the recovery actions alone, over every content of the document
InitLoad ==
  /\ items = <<>>
  /\ saveInProject = TRUE
  /\ document \in Contents
  /\ legacy = Missing
  /\ migration = Done
  /\ backups = <<>>
  /\ timers = {}
  /\ saveTimeout = NoTimer
  /\ writing = <<>>
  /\ loading = NotLoading
  /\ offers = {}
  /\ recovering = Idle
  /\ reported = {}
  /\ calls = [save |-> <<>>, load |-> 0, superseded |-> {}, ran |-> {}, wrote |-> NoWrites]
  /\ CacheIdle
  /\ notified = <<>> /\ DebounceIdle

NextLoad ==
  \/ LoadCall
  \/ LoadReadFile
  \/ LoadCreateBackup
  \/ TakeOffer
  \/ RecoveryCreateBackup
  \/ RecoveryResetStorage

SpecLoad == InitLoad /\ [][NextLoad]_vars

\* ---------------------------------------------------------------- SpecLRU
\* An LRUCache on its own: its methods called in any order, with any key and
\* any value.  Keys are strings, as they are for every cache of the program;
\* a value can be undefined, as a memoized result and a cached lookup can be.
CacheKeys == Files \cup {"c.ts", "d.ts"}
CacheValues == {undefined, NewBookmark(1, MainFile, 0, 0), NewBookmark(1, MainFile, 0, 1)}

InitLRU ==
  /\ items = <<>>
  /\ StorageIdle
  /\ notified = <<>> /\ DebounceIdle
  /\ cache = <<>>
  /\ maxSize \in 1..MaxSize
  /\ recency = <<>>

\* history: key was used, with this value as the one last set
Used(uses, key, value) == Append(MapDelete(uses, key), MapEntry(key, value))
\* history: the uses of the keys that are still present
Present(uses, map) == SelectSeq(uses, LAMBDA e : MapHas(map, e.key))

LRUSet ==
  \E key \in CacheKeys, value \in CacheValues :
    /\ cache' = set(cache, maxSize, key, value)
    /\ recency' = Present(Used(recency, key, value), cache')
    /\ UNCHANGED <<items, storageVars, eventVars, asyncVars, maxSize>>

LRUGet ==
  \E key \in CacheKeys :
    /\ cache' = get(cache, key).cache
    /\ recency' = IF has(cache, key) THEN Used(recency, key, MapGet(recency, key))
                  ELSE recency
    /\ UNCHANGED <<items, storageVars, eventVars, asyncVars, maxSize>>

LRUHas ==
  \E key \in CacheKeys :
    /\ has(cache, key) \in BOOLEAN
    /\ UNCHANGED vars

LRUClear ==
  /\ cache' = clear(cache)
  /\ recency' = <<>>
  /\ UNCHANGED <<items, storageVars, eventVars, asyncVars, maxSize>>

NextLRU ==
  \/ LRUSet
  \/ LRUGet
  \/ LRUHas
  \/ LRUClear

SpecLRU == InitLRU /\ [][NextLRU]_vars


\* ---------------------------------------------------------------- SpecCache
\* The store with its lookup cache, as section 4.2 of the specification
\* states it: findBookmarkByFilePath answers from an LRUCache keyed by file
\* path, a miss falls back to the traversal and stores what it found, and
\* every mutating operation clears the cache.

\* the lookup: the node returned (NULL for none), and the cache afterwards
findBookmarkByFilePathCached(nodes, map, mSize, filePath) ==
  IF has(map, filePath) THEN get(map, filePath)
  ELSE LET found == findBookmarkByFilePath(nodes, filePath)
       IN [value |-> found, cache |-> set(map, mSize, filePath, found)]

\* a mutating operation: the cache is cleared wholesale
Invalidated ==
  /\ cache' = clear(cache)
  /\ UNCHANGED <<storageVars, eventVars, asyncVars, maxSize, recency>>

CachedLookup ==
  \E filePath \in Files :
    /\ cache' = findBookmarkByFilePathCached(items, cache, maxSize, filePath).cache
    /\ UNCHANGED <<items, storageVars, eventVars, asyncVars, maxSize, recency>>

CachedToggleBookmark ==
  \E filePath \in Files, num \in OtherNums, line \in TreeLines :
    items' = toggleBookmark(items, uuidv4(items), filePath, num, line) /\ Invalidated

CachedAddBookmark ==
  \E filePath \in Files, num \in OtherNums, line \in TreeLines :
    items' = addBookmark(items, uuidv4(items), filePath, num, line) /\ Invalidated

CachedRemoveBookmarkNumber ==
  \E filePath \in Files, num \in OtherNums :
    items' = removeBookmarkNumber(items, filePath, num) /\ Invalidated

CachedTextDocumentChange ==
  \E filePath \in Files, changes \in ChangeLists(TreeLines) :
    LET bookmark == findBookmarkByFilePath(items, filePath) IN
    /\ bookmark # NULL =>
         \A k \in DOMAIN adjustAll(bookmark.numbers, changes) :
            adjustAll(bookmark.numbers, changes)[k] \in TreeLines
    /\ items' = handleTextDocumentChange(items, filePath, changes)
    /\ Invalidated

CachedClearBookmarksInFile ==
  \E filePath \in Files : items' = clearBookmarksInFile(items, filePath) /\ Invalidated

CachedClearAllBookmarks == items' = clearAllBookmarks(items) /\ Invalidated

CachedFileDeleted ==
  \E filePath \in Files : items' = onDidDelete(items, filePath) /\ Invalidated

CachedFileRenamed ==
  \E oldPath \in Files, newPath \in Files :
    /\ oldPath # newPath
    /\ items' = fileRenamed(items, oldPath, newPath)
    /\ Invalidated

CachedDeleteBookmark ==
  \E id \in Ids : items' = deleteBookmark(items, id) /\ Invalidated

CachedCreateFolder ==
  \E name \in Names, parentId \in {NoParent} \cup Ids :
    /\ CountFolders(items) < MaxFolders
    /\ items' = createFolder(items, uuidv4(items), name, parentId)
    /\ Invalidated

CachedDeleteFolder ==
  \E id \in Ids : items' = deleteFolder(items, id) /\ Invalidated

CachedMoveNode ==
  \E nodeId \in Ids, targetFolderId \in {ToRoot} \cup Ids :
    items' = moveNode(items, nodeId, targetFolderId) /\ Invalidated

NextCache ==
  \/ CachedLookup
  \/ CachedToggleBookmark
  \/ CachedAddBookmark
  \/ CachedRemoveBookmarkNumber
  \/ CachedTextDocumentChange
  \/ CachedClearBookmarksInFile
  \/ CachedClearAllBookmarks
  \/ CachedFileDeleted
  \/ CachedFileRenamed
  \/ CachedDeleteBookmark
  \/ CachedCreateFolder
  \/ CachedDeleteFolder
  \/ CachedMoveNode

SpecCache == Init /\ [][NextCache]_vars


\* ---------------------------------------------------------------- SpecEngine
\* BookmarkStore over its StorageService: every public method and handler of
\* the store with the private save() it ends in, the save timer, and the file
\* system completing or failing the writes.  The store has loaded its state
\* (initialize()); at most MaxSaves operations are run.

\* the trees initialize() can have loaded
LoadedTrees ==
  {<<>>,
   <<[NewFolder(1, "F") EXCEPT !.children = <<NewBookmark(2, MainFile, 0, 1)>>],
     NewBookmark(3, "b.ts", 0, 0)>>}

InitEngine ==
  /\ items \in LoadedTrees
  /\ saveInProject = TRUE
  /\ document = (IF items = <<>> THEN Missing ELSE stringify(State("1.0", items)))
  /\ legacy = Missing
  /\ migration = Done
  /\ backups = <<>>
  /\ timers = {}
  /\ saveTimeout = NoTimer
  /\ writing = <<>>
  /\ loading = NotLoading
  /\ offers = {}
  /\ recovering = Idle
  /\ reported = {}
  /\ calls = [save |-> <<>>, load |-> 0, superseded |-> {}, ran |-> {}, wrote |-> NoWrites]
  /\ CacheIdle
  /\ notified = <<>> /\ DebounceIdle

\* what no operation of the store touches
StoreFrame ==
  UNCHANGED <<cacheVars, asyncVars, saveInProject, document, legacy, backups, writing,
              migration, loading, offers, recovering, reported>>

\* the private save() at the end of an operation: storage.save(this.state),
\* then the change notification, whose listeners read the tree as it is now
StoreSave ==
  LET call == Len(calls.save) + 1 IN
  /\ timers' = save(timers, saveTimeout, call, ThisState)
  /\ saveTimeout' = call
  /\ calls' = [calls EXCEPT !.save = Append(@, State("1.0", items')),
                            !.superseded = Superseded(@)]
  /\ notified' = Append(notified, items')
  /\ StoreFrame

\* an operation that returns without calling save()
StoreQuiet ==
  /\ UNCHANGED <<timers, saveTimeout, calls, notified>>
  /\ StoreFrame

\* another operation can be run
MoreOperations == Len(calls.save) < MaxSaves

EngineToggleBookmark ==
  \E filePath \in Files, num \in OtherNums, line \in TreeLines :
    /\ MoreOperations
    /\ items' = toggleBookmark(items, uuidv4(items), filePath, num, line)
    /\ StoreSave

EngineAddBookmark ==
  \E filePath \in Files, num \in OtherNums, line \in TreeLines :
    /\ MoreOperations
    /\ items' = addBookmark(items, uuidv4(items), filePath, num, line)
    /\ StoreSave

EngineRemoveBookmarkNumber ==
  \E filePath \in Files, num \in OtherNums :
    /\ MoreOperations
    /\ items' = removeBookmarkNumber(items, filePath, num)
    /\ IF findBookmarkByFilePath(items, filePath) # NULL THEN StoreSave ELSE StoreQuiet

\* onDidChangeTextDocument with the changes of one event for one file
EditEvent(filePath, changes) ==
  LET bookmark == findBookmarkByFilePath(items, filePath) IN
  /\ MoreOperations
  /\ bookmark # NULL =>
       \A k \in DOMAIN adjustAll(bookmark.numbers, changes) :
          adjustAll(bookmark.numbers, changes)[k] \in TreeLines
  /\ items' = handleTextDocumentChange(items, filePath, changes)
  /\ IF bookmark # NULL /\ hasChanges(bookmark.numbers, changes)
     THEN StoreSave ELSE StoreQuiet

EngineTextDocumentChange ==
  \E filePath \in Files, changes \in ChangeLists(TreeLines) : EditEvent(filePath, changes)

EngineClearBookmarksInFile ==
  \E filePath \in Files :
    /\ MoreOperations
    /\ items' = clearBookmarksInFile(items, filePath)
    /\ IF findBookmarkByFilePath(items, filePath) # NULL THEN StoreSave ELSE StoreQuiet

EngineClearAllBookmarks ==
  /\ MoreOperations
  /\ items' = clearAllBookmarks(items)
  /\ StoreSave

EngineFileDeleted ==
  \E filePath \in Files :
    /\ MoreOperations
    /\ items' = onDidDelete(items, filePath)
    /\ IF findBookmarkByFilePath(items, filePath) # NULL THEN StoreSave ELSE StoreQuiet

EngineFileCreated ==
  \E filePath \in Files :
    /\ MoreOperations
    /\ items' = onDidCreate(items, filePath)
    /\ StoreQuiet

EngineFileRenamed ==
  \E oldPath \in Files, newPath \in Files :
    /\ MoreOperations
    /\ oldPath # newPath
    /\ items' = fileRenamed(items, oldPath, newPath)
    /\ IF findBookmarkByFilePath(items, oldPath) # NULL THEN StoreSave ELSE StoreQuiet

EngineDeleteBookmark ==
  \E id \in Ids :
    /\ MoreOperations
    /\ items' = deleteBookmark(items, id)
    /\ StoreSave

EngineRenameBookmark ==
  \E id \in Ids, label \in Labels :
    /\ MoreOperations
    /\ items' = renameBookmark(items, id, label)
    /\ IF findBookmarkById(items, id) # NULL THEN StoreSave ELSE StoreQuiet

EngineCreateFolder ==
  \E name \in Names, parentId \in {NoParent} \cup Ids :
    /\ MoreOperations
    /\ CountFolders(items) < MaxFolders
    /\ items' = createFolder(items, uuidv4(items), name, parentId)
    /\ StoreSave

EngineDeleteFolder ==
  \E id \in Ids :
    /\ MoreOperations
    /\ items' = deleteFolder(items, id)
    /\ StoreSave

EngineRenameFolder ==
  \E id \in Ids, name \in Names :
    /\ MoreOperations
    /\ items' = renameFolder(items, id, name)
    /\ IF findFolderById(items, id) # NULL THEN StoreSave ELSE StoreQuiet

EngineMoveNode ==
  \E nodeId \in Ids, targetFolderId \in {ToRoot} \cup Ids :
    /\ MoreOperations
    /\ items' = moveNode(items, nodeId, targetFolderId)
    /\ IF removeAndGetNode(items, nodeId).node # NULL THEN StoreSave ELSE StoreQuiet

NextEngine ==
  \/ EngineToggleBookmark
  \/ EngineAddBookmark
  \/ EngineRemoveBookmarkNumber
  \/ EngineTextDocumentChange
  \/ EngineClearBookmarksInFile
  \/ EngineClearAllBookmarks
  \/ EngineFileDeleted
  \/ EngineFileCreated
  \/ EngineFileRenamed
  \/ EngineDeleteBookmark
  \/ EngineRenameBookmark
  \/ EngineCreateFolder
  \/ EngineDeleteFolder
  \/ EngineRenameFolder
  \/ EngineMoveNode
  \/ SaveTimeoutFires
  \/ WriteMkdir
  \/ WriteFile
  \/ WriteFails

SpecEngine == InitEngine /\ [][NextEngine]_vars

\* ---- SpecEngineLive
\* The store with a file system on which every write succeeds.  The host runs
\* a timer callback once its delay has passed, and fs.mkdir and fs.writeFile
\* complete; the operations of the store may stop at any time.
NextEngineLive ==
  \/ EngineToggleBookmark
  \/ EngineAddBookmark
  \/ EngineRemoveBookmarkNumber
  \/ EngineTextDocumentChange
  \/ EngineClearBookmarksInFile
  \/ EngineClearAllBookmarks
  \/ EngineFileDeleted
  \/ EngineFileCreated
  \/ EngineFileRenamed
  \/ EngineDeleteBookmark
  \/ EngineRenameBookmark
  \/ EngineCreateFolder
  \/ EngineDeleteFolder
  \/ EngineRenameFolder
  \/ EngineMoveNode
  \/ SaveTimeoutFires
  \/ WriteMkdir
  \/ WriteFile

SpecEngineLive ==
  /\ InitEngine
  /\ [][NextEngineLive]_vars
  /\ WF_vars(SaveTimeoutFires)
  /\ WF_vars(WriteMkdir)
  /\ WF_vars(WriteFile)



\* ================================================================ properties
\* The properties speak about every call in every reachable state: a call is
\* the method's operator applied to the current tree.

\* the mark set of a file: whether it has a Bookmark node, and its numbers map
MarkSet(nodes, filePath) ==
  LET bookmark == findBookmarkByFilePath(nodes, filePath) IN
  IF bookmark = NULL THEN [node |-> FALSE, numbers |-> NoNumbers]
  ELSE [node |-> TRUE, numbers |-> bookmark.numbers]

HasNode(nodes, filePath) == findBookmarkByFilePath(nodes, filePath) # NULL
NumbersOf(nodes, filePath) == MarkSet(nodes, filePath).numbers

\* toggleBookmark called twice in a row with the same arguments
ToggleTwice(nodes, filePath, num, line) ==
  LET first == toggleBookmark(nodes, uuidv4(nodes), filePath, num, line)
  IN toggleBookmark(first, uuidv4(first), filePath, num, line)

\* C1 as stated: in every reachable state, for every file, number and line,
\* toggleBookmark twice in a row with identical arguments leaves the file's
\* mark set exactly as it was before the first call.
C1_ToggleTwiceRestores ==
  \A filePath \in Files, num \in Nums, line \in Lines :
    MarkSet(ToggleTwice(items, filePath, num, line), filePath) = MarkSet(items, filePath)

\* the first call neither moves num nor clears another number: num is absent
\* or already at line, and no other number of the file is at line
C1_Pre(nodes, filePath, num, line) ==
  LET numbers == NumbersOf(nodes, filePath) IN
  /\ Has(numbers, num) => numbers[num] = line
  /\ NumbersAtLine(numbers, line) \subseteq {num}

\* C1 amended: toggleBookmark twice in a row with identical arguments leaves
\* the file's number-to-line map as it was before the first call, provided
\* that before the first call the number is absent from the file or is at
\* exactly that line, and no other number of the file is at that line; after
\* the two calls the file has a Bookmark node exactly when that map is not
\* empty.
C1_ToggleTwiceRestoresUnlessMoved ==
  \A filePath \in Files, num \in Nums, line \in Lines :
    C1_Pre(items, filePath, num, line)
      => LET after == ToggleTwice(items, filePath, num, line) IN
         /\ NumbersOf(after, filePath) = NumbersOf(items, filePath)
         /\ HasNode(after, filePath) <=> NumbersOf(items, filePath) # NoNumbers

\* C1 witness: a file with marks on which both round trips happen: a number
\* that is absent and whose line is free (added, then removed), and a number
\* that is the file's only mark (removed with the node, then added again).
C1_Witness ==
  \E filePath \in Files, num \in Nums, line \in Lines :
    /\ HasNode(items, filePath)
    /\ ~Has(NumbersOf(items, filePath), num)
    /\ NumbersOf(items, filePath) # NoNumbers
    /\ C1_Pre(items, filePath, num, line)
    /\ toggleBookmark(items, uuidv4(items), filePath, num, line) # items
    /\ \E other \in Files :
         /\ Cardinality(DOMAIN NumbersOf(items, other)) = 1
         /\ \E k \in Nums : /\ Has(NumbersOf(items, other), k)
                            /\ ~HasNode(toggleBookmark(items, uuidv4(items), other, k,
                                                       NumbersOf(items, other)[k]), other)

\* C2: toggleBookmark has three outcomes, decided by the file's entry for the
\* number: absent, it becomes number -> line (the node is created first, at
\* the end of the root, when the file has none); at exactly line, it is
\* removed (and the node too when it was the last entry); at another line, it
\* is moved to line.  When no number is at line the rest of the map is kept:
\* from {1:10, 3:20} toggle(1, 70) gives {1:70, 3:20}.
C2_ToggleOutcomes ==
  \A filePath \in Files, num \in Nums, line \in Lines :
    LET numbers == NumbersOf(items, filePath)
        after == toggleBookmark(items, uuidv4(items), filePath, num, line)
        result == NumbersOf(after, filePath)
    IN /\ ~HasNode(items, filePath) =>
            /\ Len(after) = Len(items) + 1
            /\ SubSeq(after, 1, Len(items)) = items
            /\ after[Len(after)].type = "bookmark"
            /\ after[Len(after)].filePath = filePath
            /\ after[Len(after)].id \notin IdsIn(items)
            /\ result = Put(NoNumbers, num, line)
       /\ HasNode(items, filePath) /\ ~Has(numbers, num) =>
            HasNode(after, filePath) /\ Has(result, num) /\ result[num] = line
       /\ Has(numbers, num) /\ numbers[num] = line =>
            /\ ~Has(result, num)
            /\ HasNode(after, filePath) <=> DOMAIN numbers # {num}
       /\ Has(numbers, num) /\ numbers[num] # line =>
            HasNode(after, filePath) /\ Has(result, num) /\ result[num] = line
       /\ HasNode(items, filePath) /\ NumbersAtLine(numbers, line) = {} =>
            result = Put(numbers, num, line)

\* C2 witness: the example's state: a file with two numbers at two lines and a
\* third line free, where toggleBookmark moves one of them.
C2_Witness ==
  \E filePath \in Files, num \in Nums, other \in Nums, line \in Lines :
    LET numbers == NumbersOf(items, filePath) IN
    /\ num # other /\ Has(numbers, num) /\ Has(numbers, other)
    /\ numbers[num] # line /\ numbers[other] # line /\ numbers[num] # numbers[other]
    /\ NumbersOf(toggleBookmark(items, uuidv4(items), filePath, num, line), filePath)
         = Put(numbers, num, line)

\* every bookmark node of the tree, in traversal order
RECURSIVE Bookmarks(_)
Bookmarks(nodes) ==
  IF nodes = <<>> THEN <<>>
  ELSE (IF Head(nodes).type = "bookmark" THEN <<Head(nodes)>>
        ELSE Bookmarks(Head(nodes).children)) \o Bookmarks(Tail(nodes))

\* C3: in every reachable state every Bookmark node of the tree has a
\* non-empty numbers map.
C3_NoEmptyBookmark ==
  \A i \in 1..Len(Bookmarks(items)) : Bookmarks(items)[i].numbers # NoNumbers

\* C4: in every reachable state the tree (root and folders at any depth)
\* holds at most one Bookmark node for any filePath.
C4_OneNodePerFile ==
  \A i, j \in 1..Len(Bookmarks(items)) :
    Bookmarks(items)[i].filePath = Bookmarks(items)[j].filePath => i = j

\* C4 witness: two files are bookmarked, one node inside a folder and one in
\* the root, and an add and a toggle for a bookmarked file create no node.
C4_Witness ==
  /\ Len(Bookmarks(items)) = 2
  /\ \E i \in 1..Len(items) :
       items[i].type = "folder" /\ Len(Bookmarks(items[i].children)) = 1
  /\ \E i \in 1..Len(items) : items[i].type = "bookmark"
  /\ \A filePath \in Files :
       /\ Len(Bookmarks(addBookmark(items, uuidv4(items), filePath, 0, 0))) = 2
       /\ Len(Bookmarks(toggleBookmark(items, uuidv4(items), filePath, 0, 0))) <= 2

\* C5: in every reachable state, within one Bookmark node no two different
\* numbers map to the same line.
C5_OneNumberPerLine ==
  \A i \in 1..Len(Bookmarks(items)) :
    LET numbers == Bookmarks(items)[i].numbers IN
    \A k, m \in DOMAIN numbers : numbers[k] = numbers[m] => k = m

\* C6: addBookmark(file, n, L) makes n map to L, and addBookmark(file, n, L)
\* followed by addBookmark(file, m, L) with m # n leaves n absent from the
\* file's map and m at L.
C6_AddClearsOtherNumber ==
  \A filePath \in Files, n \in Nums, m \in Nums, line \in Lines :
    LET first == addBookmark(items, uuidv4(items), filePath, n, line)
        second == addBookmark(first, uuidv4(first), filePath, m, line)
    IN /\ Has(NumbersOf(first, filePath), n) /\ NumbersOf(first, filePath)[n] = line
       /\ m # n => /\ ~Has(NumbersOf(second, filePath), n)
                   /\ Has(NumbersOf(second, filePath), m)
                   /\ NumbersOf(second, filePath)[m] = line

\* the entry of a number: present or not, and its line
SameEntry(a, b, m) == (Has(a, m) <=> Has(b, m)) /\ (Has(a, m) => a[m] = b[m])

OtherFilesKept(nodes, after, filePath) ==
  \A other \in Files \ {filePath} :
    findBookmarkByFilePath(after, other) = findBookmarkByFilePath(nodes, other)

\* C7 as stated: toggleBookmark(file, n, line) leaves the entry of every
\* number m # n of the file as it was, and the nodes of all other files.
C7_ToggleKeepsOtherNumbers ==
  \A filePath \in Files, num \in Nums, line \in Lines :
    LET after == toggleBookmark(items, uuidv4(items), filePath, num, line) IN
    /\ \A m \in Nums \ {num} :
         SameEntry(NumbersOf(items, filePath), NumbersOf(after, filePath), m)
    /\ OtherFilesKept(items, after, filePath)

\* the number toggleBookmark clears to free the line: none when num is at line;
\* otherwise the smallest number that is at line
ClearedByToggle(numbers, num, line) ==
  IF Has(numbers, num) /\ numbers[num] = line THEN {}
  ELSE IF NumbersAtLine(numbers, line) = {} THEN {}
       ELSE {Min(NumbersAtLine(numbers, line))}

\* C7 amended: toggleBookmark(file, n, line) leaves the entry of every number
\* m # n of the file as it was, except that a call that puts n at line (n was
\* absent or at another line) removes the smallest other number that was at
\* line; the Bookmark nodes of all other files are unchanged.
C7_ToggleKeepsOtherNumbersButOneAtLine ==
  \A filePath \in Files, num \in Nums, line \in Lines :
    LET numbers == NumbersOf(items, filePath)
        after == toggleBookmark(items, uuidv4(items), filePath, num, line)
    IN /\ \A m \in Nums \ {num} :
            IF m \in ClearedByToggle(numbers, num, line)
            THEN ~Has(NumbersOf(after, filePath), m)
            ELSE SameEntry(numbers, NumbersOf(after, filePath), m)
       /\ OtherFilesKept(items, after, filePath)

\* C7 witness: a file in which two numbers are at one line and a third number
\* is toggled onto that line: the smaller of the two goes, the other stays;
\* and the other file is bookmarked.
C7_Witness ==
  \E filePath \in Files, num \in Nums, line \in Lines :
    LET numbers == NumbersOf(items, filePath)
        after == toggleBookmark(items, uuidv4(items), filePath, num, line)
    IN /\ Cardinality(NumbersAtLine(numbers, line) \ {num}) = 2
       /\ ~Has(numbers, num)
       /\ Cardinality(NumbersAtLine(NumbersOf(after, filePath), line)) = 2
       /\ \E other \in Files \ {filePath} : HasNode(items, other)

\* C8: a file-delete event for a bookmarked path followed by a file-create
\* event for the same path never removes the Bookmark: after the delete and
\* after the create the path has the node it had, with the same id and the
\* same numbers.
C8_RecreateKeepsBookmark ==
  \A filePath \in Files :
    HasNode(items, filePath) =>
      LET deleted == onDidDelete(items, filePath)
          created == onDidCreate(deleted, filePath)
      IN /\ findBookmarkByFilePath(deleted, filePath) = findBookmarkByFilePath(items, filePath)
         /\ findBookmarkByFilePath(created, filePath) = findBookmarkByFilePath(items, filePath)

\* C9: a file-delete event for a bookmarked path that no create event follows
\* removes the Bookmark node of that path, that node only, and leaves the
\* Bookmark nodes of all other paths as they were.
C9_DeleteRemovesOnlyThatBookmark ==
  \A filePath \in Files :
    HasNode(items, filePath) =>
      LET after == onDidDelete(items, filePath) IN
      /\ ~HasNode(after, filePath)
      /\ Len(Bookmarks(after)) = Len(Bookmarks(items)) - 1
      /\ OtherFilesKept(items, after, filePath)

\* C9 witness: both files are bookmarked, one of them inside a folder, and the
\* delete event of that one removes its node.
C9_Witness ==
  \E filePath \in Files, i \in 1..Len(items) :
    /\ items[i].type = "folder"
    /\ HasNode(items[i].children, filePath)
    /\ \A other \in Files : HasNode(items, other)
    /\ ~HasNode(onDidDelete(items, filePath), filePath)

\* C10: a rename event (oldPath, newPath) for a bookmarked path moves the
\* Bookmark to newPath in place: the node found at newPath afterwards has the
\* id, the numbers and the label the node of oldPath had, no node has filePath
\* oldPath, and the number of Bookmark nodes is unchanged.
C10_RenameKeepsBookmark ==
  \A oldPath \in Files, newPath \in Files :
    oldPath # newPath /\ HasNode(items, oldPath) /\ ~HasNode(items, newPath) =>
      LET after == fileRenamed(items, oldPath, newPath)
          was == findBookmarkByFilePath(items, oldPath)
          now == findBookmarkByFilePath(after, newPath)
      IN /\ now # NULL
         /\ now.id = was.id
         /\ now.numbers = was.numbers
         /\ now.label = was.label
         /\ ~HasNode(after, oldPath)
         /\ Len(Bookmarks(after)) = Len(Bookmarks(items))

\* ---------------------------------------------------------------- storage claims
\* the timer callbacks in progress that write for a call of save
WritingFor(call) == {i \in DOMAIN writing : writing[i].call = call}

\* a burst is a run of calls of save each of which found the timer of the one
\* before pending; its last call is the one no call superseded
BurstInv ==
  \A call \in 1..Len(calls.save) :
    \* the state of a call that is not the last of its burst is never written
    /\ call \in calls.superseded =>
         call \notin calls.ran /\ WritingFor(call) = {} /\ calls.wrote[call] = 0
    \* nothing is written while the window is open
    /\ Pending(call) =>
         call \notin calls.ran /\ WritingFor(call) = {} /\ calls.wrote[call] = 0
    \* once the window of the last call has closed its callback runs, once
    /\ call \notin calls.superseded /\ ~Pending(call) =>
         /\ call \in calls.ran
         /\ Cardinality(WritingFor(call)) + calls.wrote[call] <= 1
    \* with the state passed to that call
    /\ \A i \in WritingFor(call) : writing[i].state = calls.save[call]

\* a step in which fs.writeFile writes for a call writes the state passed to it
BurstStep ==
  \A call \in 1..MaxSaves :
    calls.wrote'[call] > calls.wrote[call] =>
      /\ call \in 1..Len(calls.save)
      /\ document' = stringify(calls.save[call])

\* C11: N >= 1 calls of save, each made while the timer of the call before is
\* pending, cause one write only: the callback of the N-th call runs once,
\* after its timer has fired, and what fs.writeFile writes is the state passed
\* to the N-th call; the states passed to the earlier calls are never written.
C11_BurstWritesLastStateOnce == [](BurstInv) /\ [][BurstStep]_vars

\* C11 witness: a burst of two calls with different states has closed and the
\* document holds the state of the second call.
C11_Witness ==
  /\ Len(calls.save) = 2
  /\ calls.save[1] # calls.save[2]
  /\ calls.superseded = {1}
  /\ calls.ran = {2}
  /\ calls.wrote[2] = 1
  /\ document = stringify(calls.save[2])

\* a call of load() that has returned
Loaded == loading.at = Done

\* the step in which load() gets the outcome of fs.readFile
ReadStep == loading.at = "readFile" /\ loading'.at # "readFile"

\* the files: the document, the legacy file and the backups
files == <<document, legacy, backups>>

\* C12: when the document does not exist load() returns the default state
\* (version '1.0', no items) and shows no error or warning to the user; it
\* returns at once and no file is created, backed up or deleted.
C12_MissingDocumentLoadsDefault ==
  /\ [](Loaded /\ loading.read = Missing =>
          /\ loading.result = JObject(JString("1.0"), JArray(<<>>))
          /\ loading.error = NoError)
  /\ [][ReadStep /\ document = Missing =>
          /\ Loaded'
          /\ files' = files
          /\ reported' = reported
          /\ offers' = offers]_vars

\* C12 witness: load() has returned after finding no document.
C12_Witness ==
  /\ Loaded
  /\ loading.read = Missing
  /\ loading.result = getDefaultState
  /\ reported = {}

\* the backup files that hold a content
BackupsOf(content) == {i \in DOMAIN backups : backups[i].content = content}

\* C13: when the document is not valid JSON load() returns the default state
\* and reports the error with its recovery action, and there is exactly one
\* backup copy of the unreadable document for that load, also after the user
\* has taken the recovery action; what load() reads is the document at the
\* storage path, never a backup file.
C13_InvalidJsonOneBackup ==
  Loaded /\ loading.read = NotJson =>
    /\ loading.result = getDefaultState
    /\ loading.error = "jsonParse"
    /\ "jsonParse" \in reported
    /\ Cardinality(BackupsOf(NotJson)) = 1

\* a JSON object that fails the validation of load(): its version is missing
\* (or is another falsy value) or its items is not an array
Invalid(version, array) == ~Truthy(version) \/ ~IsArray(array)

\* the state load() makes of it, field by field
Repaired(version, array) ==
  JObject(IF version.t = "string" THEN version ELSE JString("1.0"),
          IF array.t = "array" THEN array ELSE JArray(<<>>))

\* C14: when the document parses as a JSON object that has no version or
\* whose items is not an array, load() reports corrupted data and returns the
\* object repaired field by field: a version that is a string is kept, any
\* other is replaced by '1.0'; an items array is kept, anything else is
\* replaced by the empty array.
C14_RepairsFieldByField ==
  \A version \in Properties, array \in Properties :
    Loaded /\ loading.read = Json(JObject(version, array)) /\ Invalid(version, array)
      => /\ loading.result = Repaired(version, array)
         /\ loading.error = "corruptedData"
         /\ backups = <<>>

\* C14 witness: load() has returned for a document without version whose items
\* holds a bookmark, and the state returned has that bookmark.
C14_Witness ==
  /\ Loaded
  /\ loading.read = Json(JObject(JUndefined, JArray(<<NewBookmark(1, MainFile, 0, 0)>>)))
  /\ loading.result = State("1.0", <<NewBookmark(1, MainFile, 0, 0)>>)
  /\ loading.error = "corruptedData"

\* C15: the migration never overwrites or replaces a per-workspace document
\* that exists: in every interleaving of its steps with load() and with the
\* debounced writes, the step that ends the migration leaves a document that
\* exists as it is.
C15_MigrationNeverOverwrites ==
  [][migration # Done /\ migration' = Done /\ document # Missing
       => document' = document]_vars

\* ---------------------------------------------------------------- tree claims
\* the node with an id, NULL when the tree has none
NodeById(nodes, id) == removeAndGetNode(nodes, id).node

\* target is the node itself or a folder in the subtree of the node
InOwnSubtree(nodes, nodeId, target) ==
  /\ NodeById(nodes, nodeId) # NULL
  /\ \/ target = nodeId
     \/ findFolderById(<<NodeById(nodes, nodeId)>>, target) # NULL

\* C16: moveNode(id, target) with target the node itself or a folder inside
\* the subtree of the node leaves the whole tree as it was.
C16_MoveIntoOwnSubtreeIsNoOp ==
  \A nodeId \in Ids, target \in Ids :
    InOwnSubtree(items, nodeId, target) => moveNode(items, nodeId, target) = items

\* C17: createFolder(name, parentId) with a parentId that matches no folder of
\* the tree appends the new folder to the end of the root: the tree has one
\* more folder, and it is the last root item.
C17_UnknownParentFallsBackToRoot ==
  \A name \in Names, parentId \in Ids :
    findFolderById(items, parentId) = NULL /\ CountFolders(items) < MaxFolders =>
      LET after == createFolder(items, uuidv4(items), name, parentId) IN
      /\ CountFolders(after) = CountFolders(items) + 1
      /\ after = Append(items, NewFolder(uuidv4(items), name))

\* C18: deleteBookmark and renameBookmark called with an id that matches no
\* bookmark, deleteFolder and renameFolder called with an id that matches no
\* folder, and moveNode called with an id that matches no node leave the tree
\* unchanged.
C18_UnknownIdIsNoOp ==
  \A id \in Ids :
    /\ findBookmarkById(items, id) = NULL =>
         /\ deleteBookmark(items, id) = items
         /\ \A label \in Labels : renameBookmark(items, id, label) = items
    /\ findFolderById(items, id) = NULL =>
         /\ deleteFolder(items, id) = items
         /\ \A name \in Names : renameFolder(items, id, name) = items
    /\ NodeById(items, id) = NULL =>
         \A target \in {ToRoot} \cup Ids : moveNode(items, id, target) = items

\* ---------------------------------------------------------------- sticky claims
\* the content changes an edit event can hold
EditChanges == {change \in ChangesIn(Lines) : change.start <= change.end}

\* the numbers of a file after an edit event with one content change
AfterEdit(filePath, change) ==
  NumbersOf(handleTextDocumentChange(items, filePath, <<change>>), filePath)

\* C19: for one content change with start line s, end line e and k inserted
\* lines, lineDelta = k - (e - s), every mark of the file whose line is greater
\* than s ends at line + lineDelta when that is not negative, and every mark
\* whose line is at or before s keeps its line.
C19_MarksAfterStartShift ==
  \A filePath \in Files, change \in EditChanges :
    LET numbers == NumbersOf(items, filePath)
        delta == change.ins - (change.end - change.start)
        after == AfterEdit(filePath, change)
    IN \A k \in DOMAIN numbers :
         /\ numbers[k] > change.start /\ numbers[k] + delta >= 0 =>
              Has(after, k) /\ after[k] = numbers[k] + delta
         /\ numbers[k] <= change.start =>
              Has(after, k) /\ after[k] = numbers[k]

\* C19 witness: a file with a mark at the start line of a change and a mark
\* after it, and a change that inserts a line: the second mark moves down by
\* one and the first stays.
C19_Witness ==
  \E filePath \in Files, change \in EditChanges, k \in Nums, m \in Nums :
    LET numbers == NumbersOf(items, filePath)
        after == AfterEdit(filePath, change)
    IN /\ Has(numbers, k) /\ Has(numbers, m)
       /\ change.ins = 1 /\ change.end = change.start
       /\ numbers[k] = change.start /\ numbers[m] > change.start
       /\ after[k] = numbers[k] /\ after[m] = numbers[m] + 1

\* C20: an edit that deletes a range of lines that contains the line of a mark
\* removes that mark from the numbers of the file.
C20_DeletedLineRemovesMark ==
  \A filePath \in Files, change \in EditChanges :
    LET numbers == NumbersOf(items, filePath) IN
    \A k \in DOMAIN numbers :
      change.ins = 0 /\ change.start < numbers[k] /\ numbers[k] < change.end
        => ~Has(AfterEdit(filePath, change), k)

\* the active numbers in scope: those of one file, or those of the whole tree
WholeTree == "*"
NumbersInScope(nodes, scope) ==
  IF scope = WholeTree
  THEN {EntriesInOrder(nodes)[i].num : i \in 1..Len(EntriesInOrder(nodes))}
  ELSE DOMAIN NumbersOf(nodes, scope)

\* the adjacency query for a scope
AdjacentIn(nodes, scope, c, direction) ==
  IF scope = WholeTree THEN getAdjacentBookmarkGlobal(nodes, c, direction)
  ELSE getAdjacentBookmarkInFile(nodes, scope, c, direction)

\* the numbers a jump can start from: every number, one past the highest,
\* and the two sentinels
Currents == BeforeFirst..(MaxNum + 1) \cup {AfterLast}

\* what the claim says a query returns
WrappedNext(S, c) == IF \E n \in S : n > c THEN Min({n \in S : n > c}) ELSE Min(S)
WrappedPrevious(S, c) == IF \E n \in S : n < c THEN Max({n \in S : n < c}) ELSE Max(S)

\* C21: in every reachable state, for each scope (one file, or the whole
\* tree) with active numbers S and every current number c: with S empty the
\* adjacency query returns nothing; otherwise next returns the smallest
\* number of S above c, or the smallest of S when none is above, and previous
\* returns the largest number of S below c, or the largest of S when none is
\* below, each with a line that number is marked at.  A jump from a cursor
\* line that carries no number starts from a sentinel and so goes to the
\* lowest number (next) or the highest (previous).
C21_AdjacentWraps ==
  \A scope \in Files \cup {WholeTree} :
    LET S == NumbersInScope(items, scope) IN
    /\ \A c \in Currents : \A direction \in {"next", "previous"} :
         LET result == AdjacentIn(items, scope, c, direction) IN
         IF S = {} THEN result = NULL
         ELSE /\ result # NULL
              /\ result.num = IF direction = "next" THEN WrappedNext(S, c)
                              ELSE WrappedPrevious(S, c)
              /\ Has(result.bookmark.numbers, result.num)
              /\ result.bookmark.numbers[result.num] = result.line
              /\ result.bookmark \in {Bookmarks(items)[i] : i \in 1..Len(Bookmarks(items))}
    /\ \A filePath \in Files : \A line \in Lines :
         (scope \in {filePath, WholeTree} /\ S # {}
            /\ \A n \in DOMAIN NumbersOf(items, filePath) :
                 NumbersOf(items, filePath)[n] # line)
         => /\ handleJumpToAdjacentBookmark(items, scope = WholeTree, filePath, line, "next").num
                 = Min(S)
            /\ handleJumpToAdjacentBookmark(items, scope = WholeTree, filePath, line, "previous").num
                 = Max(S)

\* C21 witness: a file holds three numbers; next of the highest is the
\* lowest, previous of the lowest is the highest, and next of the middle one
\* is the highest; another file is bookmarked too, so the whole tree differs
\* from the file.
C21_Witness ==
  LET S == DOMAIN NumbersOf(items, MainFile) IN
  /\ Cardinality(S) = 3
  /\ \E filePath \in Files \ {MainFile} : HasNode(items, filePath)
  /\ getAdjacentBookmarkInFile(items, MainFile, Max(S), "next").num = Min(S)
  /\ getAdjacentBookmarkInFile(items, MainFile, Min(S), "previous").num = Max(S)
  /\ getAdjacentBookmarkInFile(items, MainFile, Min(S) + 1, "next").num = Max(S)
  /\ getAdjacentBookmarkGlobal(items, Max(S), "next").num = Min(S)

\* a set has put a new key into a cache that was full
InsertedIntoFull == Len(cache) = maxSize /\ MapKeys(cache') \ MapKeys(cache) # {}

\* C23: a cache constructed with maxSize m >= 1 never holds more than m
\* entries, whatever set, get, has and clear calls were made, and a set that
\* inserts a new key into a full cache removes exactly one other key.
C23_CapacityBound ==
  /\ [](maxSize >= 1 => size(cache) <= maxSize)
  /\ [][InsertedIntoFull
          => /\ Cardinality(MapKeys(cache) \ MapKeys(cache')) = 1
             /\ Cardinality(MapKeys(cache') \ MapKeys(cache)) = 1
             /\ size(cache') = maxSize]_vars

\* C23 witness: a full cache of more than one entry, one of which a set of a
\* new key would remove.
C23_Witness ==
  /\ size(cache) = maxSize
  /\ maxSize > 1
  /\ \E key \in CacheKeys \ MapKeys(cache) :
       /\ size(set(cache, maxSize, key, undefined)) = maxSize
       /\ has(set(cache, maxSize, key, undefined), key)

\* C24: when set inserts a new key into a full cache, the key it evicts is
\* the one whose most recent use (a get of it while it was present, or a set
\* of it) is the oldest among the keys present, and every other key is
\* retained with the value last set for it.
C24_EvictsLeastRecentlyUsed ==
  [][InsertedIntoFull
       => /\ MapKeys(cache) \ MapKeys(cache') = {Head(recency).key}
          /\ \A key \in MapKeys(cache) \ {Head(recency).key} :
               MapGet(cache', key) = MapGet(recency, key)]_vars

\* what a full traversal of the tree finds for a file: the first Bookmark
\* node of that file among all the nodes of the tree, or nothing
TraversalFinds(nodes, filePath) ==
  LET found == SelectSeq(Bookmarks(nodes), LAMBDA b : b.filePath = filePath)
  IN IF found = <<>> THEN NULL ELSE Head(found)

\* C22: in every state of the store with its lookup cache, that is after any
\* sequence of mutating operations and lookups and whatever write is
\* pending, findBookmarkByFilePath(p) returns exactly the Bookmark node that
\* a full traversal of the current tree finds for p, or nothing when there
\* is none; no entry of the cache holds anything else.
C22_LookupMatchesTraversal ==
  \A filePath \in Files :
    /\ findBookmarkByFilePathCached(items, cache, maxSize, filePath).value
         = TraversalFinds(items, filePath)
    /\ has(cache, filePath) => MapGet(cache, filePath) = TraversalFinds(items, filePath)

\* C22 witness: both files were looked up since the last mutation, one has a
\* Bookmark node inside a folder and the other has none, and a toggle on the
\* second one would make its cached answer stale if the cache were kept.
C22_Witness ==
  /\ size(cache) = 2
  /\ \E i \in 1..Len(items) :
       /\ items[i].type = "folder"
       /\ Len(Bookmarks(items[i].children)) = 1
  /\ \E filePath \in Files :
       /\ MapGet(cache, filePath) = undefined
       /\ TraversalFinds(toggleBookmark(items, uuidv4(items), filePath, 0, 0), filePath) # NULL

\* C25: every operation of the store that changes the tree issues exactly
\* one save request and emits exactly one change notification, both after
\* the change: the state handed to StorageService.save and the tree a
\* listener reads in the notification are the changed tree, and a timer for
\* that request is pending.
C25_OneSaveOneNotification ==
  [][items' # items
       => /\ calls'.save = Append(calls.save, State("1.0", items'))
          /\ Timer(saveTimeout', ThisState) \in timers'
          /\ saveTimeout' = Len(calls'.save)
          /\ notified' = Append(notified, items')]_vars

\* C25 witness: two operations have changed the tree, the second one a tree
\* with a folder; each emitted one notification and one save request.
C25_Witness ==
  /\ Len(notified) = 2
  /\ Len(calls.save) = 2
  /\ notified[2] = items
  /\ notified[1] # notified[2]
  /\ CountFolders(notified[1]) = 1

\* a timer callback has ended without fs.writeFile having written
WriteFailed == Len(writing') < Len(writing) /\ calls'.wrote = calls.wrote
\* the timer callback of one call has evaluated JSON.stringify(state)
Stringified(i) ==
  i \in DOMAIN writing /\ i \in DOMAIN writing'
    /\ writing'[i].call = writing[i].call
    /\ writing[i].at = "mkdir" /\ writing'[i].at = "writeFile"

\* C26: when a debounced write fails, the failure is reported and neither
\* the tree nor the document nor the pending timer is touched; an operation
\* that changes the tree after a failure was reported issues its save
\* request as ever, a pending timer for the store's state; and what a write
\* hands to the file system is the complete tree as it is then, which is
\* what the document holds once it is written.
C26_WriteFailureLeavesStoreWorking ==
  /\ [][WriteFailed
          => /\ "storageWrite" \in reported'
             /\ items' = items
             /\ document' = document
             /\ timers' = timers
             /\ notified' = notified]_vars
  /\ [][("storageWrite" \in reported /\ items' # items)
          => /\ Timer(saveTimeout', ThisState) \in timers'
             /\ calls'.save = Append(calls.save, State("1.0", items'))]_vars
  /\ [][\A i \in 1..MaxWriting :
          Stringified(i) => writing'[i].state = State("1.0", items)]_vars
  /\ [][document' # document
          => \E i \in DOMAIN writing :
               /\ writing[i].at = "writeFile"
               /\ writing[i].state \in {State("1.0", notified[k]) : k \in DOMAIN notified}
               /\ document' = stringify(writing[i].state)]_vars

\* C26 witness: the write of the first save request failed and was reported,
\* the tree was changed again, and the write of the second request has put
\* the complete current tree, a non-empty one, into the document.
C26_Witness ==
  /\ "storageWrite" \in reported
  /\ calls.ran = {1, 2}
  /\ calls.wrote[1] = 0
  /\ calls.wrote[2] = 1
  /\ writing = <<>>
  /\ items # <<>>
  /\ notified[1] # items
  /\ document = stringify(State("1.0", items))

\* the one call of save has had its debounce delay and its write: the timer
\* has fired and fs.writeFile has written
WrittenOnce ==
  /\ Len(calls.save) = 1
  /\ calls.wrote[1] = 1
  /\ timers = {}
  /\ writing = <<>>

\* C27: save(s) of a well-formed state s, then, once the debounce delay has
\* passed and the write was made, with no other save, load(): load returns a
\* state equal to s and reports nothing.
C27_SaveThenLoadRoundTrip ==
  [][(ReadStep /\ WrittenOnce)
       => /\ loading'.result = calls.save[1]
          /\ loading'.error = NoError]_vars


\* ---------------------------------------------------------------- well-formedness
\* the container of every occurrence of an id in the tree: NoParent for the
\* root sequence, the id of the folder for the children of a folder
RECURSIVE ParentsOf(_, _, _)
ParentsOf(nodes, parent, id) ==
  IF nodes = <<>> THEN <<>>
  ELSE LET node == Head(nodes) IN
       (IF node.id = id THEN <<parent>> ELSE <<>>)
       \o (IF node.type = "folder" THEN ParentsOf(node.children, node.id, id) ELSE <<>>)
       \o ParentsOf(Tail(nodes), parent, id)

\* every folder node of the tree, in traversal order
RECURSIVE FoldersIn(_)
FoldersIn(nodes) ==
  IF nodes = <<>> THEN <<>>
  ELSE (IF Head(nodes).type = "folder"
        THEN <<Head(nodes)>> \o FoldersIn(Head(nodes).children)
        ELSE <<>>) \o FoldersIn(Tail(nodes))

\* each id occurs once, in one container, and no folder is below itself
WellFormed(nodes) ==
  /\ \A id \in IdsIn(nodes) : Len(ParentsOf(nodes, NoParent, id)) = 1
  /\ \A i \in 1..Len(FoldersIn(nodes)) :
       FoldersIn(nodes)[i].id \notin IdsIn(FoldersIn(nodes)[i].children)

\* C28: in every reachable state each node id occurs exactly once in the
\* tree, every node has exactly one parent container, no folder is its own
\* ancestor, and moveNode, whatever its arguments, returns a tree with the
\* same set of node ids.
C28_TreeWellFormed ==
  /\ WellFormed(items)
  /\ \A nodeId \in Ids, target \in Ids \cup {ToRoot} :
       /\ IdsIn(moveNode(items, nodeId, target)) = IdsIn(items)
       /\ WellFormed(moveNode(items, nodeId, target))

\* C28 witness: a folder that holds a folder and a bookmark below it is
\* moved into the folder it holds: it comes out at the end of the root with
\* all that is below it.
C28_Witness ==
  \E nodeId \in IdsIn(items), target \in IdsIn(items) :
    /\ nodeId # target
    /\ InOwnSubtree(items, nodeId, target)
    /\ Bookmarks(<<NodeById(items, nodeId)>>) # <<>>
    /\ moveNode(items, nodeId, target)[Len(items)] = NodeById(items, nodeId)

\* ---------------------------------------------------------------- deleteFolder claims
\* the tree without the nodes whose id is in gone and all that is below
\* them; every other node stays in its container, in its order
RECURSIVE Prune(_, _)
Prune(nodes, gone) ==
  IF nodes = <<>> THEN <<>>
  ELSE LET node == Head(nodes) IN
       (IF node.id \in gone THEN <<>>
        ELSE IF node.type = "folder"
             THEN <<[node EXCEPT !.children = Prune(node.children, gone)]>>
             ELSE <<node>>)
       \o Prune(Tail(nodes), gone)

\* the ids of a folder and of everything below it
SubtreeIds(folder) == {folder.id} \cup IdsIn(folder.children)

\* C29: deleteFolder(id) with the id of a folder: afterwards no id of the
\* folder or of its descendants is in the tree, findBookmarkByFilePath
\* returns nothing for every file that was bookmarked inside the subtree,
\* and the nodes outside the subtree are unchanged, each in its container
\* and in its order.
C29_DeleteFolderRemovesSubtree ==
  \A id \in Ids :
    LET folder == findFolderById(items, id)
        after == deleteFolder(items, id)
    IN folder # NULL =>
         /\ IdsIn(after) \cap SubtreeIds(folder) = {}
         /\ IdsIn(after) = IdsIn(items) \ SubtreeIds(folder)
         /\ \A i \in 1..Len(Bookmarks(folder.children)) :
              findBookmarkByFilePath(after, Bookmarks(folder.children)[i].filePath) = NULL
         /\ after = Prune(items, {id})
         /\ Bookmarks(after)
              = SelectSeq(Bookmarks(items), LAMBDA b : b.id \notin SubtreeIds(folder))

\* C29 witness: a folder inside another folder holds a bookmark, and
\* deleteFolder of the inner folder leaves the outer folder, empty, and no
\* bookmark.
C29_Witness ==
  \E id \in Ids :
    LET folder == findFolderById(items, id) IN
    /\ folder # NULL
    /\ ParentsOf(items, NoParent, id) # <<NoParent>>
    /\ Bookmarks(folder.children) # <<>>
    /\ FoldersIn(deleteFolder(items, id)) # <<>>
    /\ Bookmarks(deleteFolder(items, id)) = <<>>

\* ---------------------------------------------------------------- clearBookmarksInFile claims
\* id and name of every folder of the tree, in traversal order
FolderNames(nodes) ==
  [i \in 1..Len(FoldersIn(nodes)) |->
     [id |-> FoldersIn(nodes)[i].id, name |-> FoldersIn(nodes)[i].name]]

\* C30: clearBookmarksInFile(p) takes the Bookmark node of p out of the tree
\* when there is one: every other Bookmark node keeps its numbers, its label
\* and its place, and every folder stays.  With no Bookmark node of p the tree
\* is unchanged.
C30_ClearBookmarksInFileFrame ==
  \A p \in Files :
    LET bookmark == findBookmarkByFilePath(items, p)
        after == clearBookmarksInFile(items, p)
    IN IF bookmark = NULL THEN after = items
       ELSE /\ findBookmarkByFilePath(after, p) = NULL
            /\ bookmark.id \notin IdsIn(after)
            /\ after = Prune(items, {bookmark.id})
            /\ Bookmarks(after) = SelectSeq(Bookmarks(items), LAMBDA b : b.filePath # p)
            /\ FolderNames(after) = FolderNames(items)

\* C30 witness: the Bookmark node of one file is inside a folder, the
\* Bookmark node of another file has a label, and clearBookmarksInFile of the
\* first file leaves the second.
C30_Witness ==
  \E p \in Files, q \in Files, i \in 1..Len(FoldersIn(items)) :
    /\ p # q
    /\ findBookmarkByFilePath(FoldersIn(items)[i].children, p) # NULL
    /\ findBookmarkByFilePath(items, q) # NULL
    /\ findBookmarkByFilePath(items, q).label # NoLabel
    /\ Len(Bookmarks(clearBookmarksInFile(items, p))) = 1


\* ---------------------------------------------------------------- auto bookmark claims
\* the numbers of MainFile after the command on a line
AfterAuto(line) ==
  NumbersOf(handleAutoBookmark(items, uuidv4(items), MainFile, line), MainFile)

\* C31: auto-bookmark on a line without a mark gives the line the smallest
\* number of 0..9 that the file does not use, and number 0 when the file uses
\* all ten; the line then carries exactly that one number and every other
\* number stays where it was.  On a line that carries a mark it removes the
\* mark (the first one found) and assigns nothing.
C31_AutoBookmarkSmallestFree ==
  \A line \in AutoLines :
    LET numbers == NumbersOf(items, MainFile)
        atLine == NumbersAtLine(numbers, line)
        free == AllNumbers \ DOMAIN numbers
    IN IF atLine = {}
       THEN /\ free # {} => AfterAuto(line) = Put(numbers, Min(free), line)
            /\ free = {} => AfterAuto(line) = Put(numbers, 0, line)
            /\ Cardinality(NumbersAtLine(AfterAuto(line), line)) = 1
       ELSE /\ AfterAuto(line) = Del(numbers, Min(atLine))
            /\ DOMAIN AfterAuto(line) \subseteq DOMAIN numbers

\* C31 witness: the file uses all ten numbers and the cursor line carries
\* none: the command moves number 0 to the line.
C31_Witness ==
  \E line \in AutoLines :
    /\ DOMAIN NumbersOf(items, MainFile) = AllNumbers
    /\ NumbersAtLine(NumbersOf(items, MainFile), line) = {}
    /\ NumbersOf(items, MainFile)[0] # line
    /\ AfterAuto(line)[0] = line


\* ---------------------------------------------------------------- debounceAsync claims
\* C32: every promise that is settled is settled with the outcome of fn
\* applied to the arguments of the call that returned the promise.
C32_PromiseGetsOwnResult ==
  \A call \in DOMAIN debounced.settled :
    debounced.settled[call] # Unsettled
      => debounced.settled[call].args = debounced.args[call]


\* ---------------------------------------------------------------- write order claims
\* C36: a debounced write never starts while an earlier one is waiting for
\* fs.mkdir or fs.writeFile: at most one timer callback is in progress.
C36_WritesSerialized == Len(writing) <= 1


\* C33: once the store has asked for a save, and with every write
\* succeeding, the document eventually holds the serialization of the tree
\* as it is, and goes on holding it.
C33_DocumentCatchesUp ==
  <>[](calls.save # <<>> => document = stringify(State("1.0", items)))


\* ---------------------------------------------------------------- edit batch claims
\* the content changes an edit event of MainFile can hold
BatchChanges == {c \in ChangesIn(Lines) : c.start <= c.end}

\* one event for each change of the list, in the order of the list
RECURSIVE EventByEvent(_, _, _)
EventByEvent(nodes, filePath, changes) ==
  IF changes = <<>> THEN nodes
  ELSE EventByEvent(handleTextDocumentChange(nodes, filePath, <<Head(changes)>>),
                    filePath, Tail(changes))

\* C34: one edit event of a file with the change list [c1, c2] leaves the
\* numbers of the file as two events do, the first with c1 and the second
\* with c2.
C34_BatchInOrder ==
  \A c1 \in BatchChanges, c2 \in BatchChanges :
    NumbersOf(handleTextDocumentChange(items, MainFile, <<c1, c2>>), MainFile)
      = NumbersOf(EventByEvent(items, MainFile, <<c1, c2>>), MainFile)

\* C34 witness: the file has marks that two changes of one event move, and
\* the two changes in the other order would leave other numbers.
C34_Witness ==
  \E c1 \in BatchChanges, c2 \in BatchChanges :
    LET numbers == NumbersOf(items, MainFile)
        batch == NumbersOf(handleTextDocumentChange(items, MainFile, <<c1, c2>>), MainFile)
    IN /\ adjustNumbers(numbers, c1) # numbers
       /\ batch # adjustNumbers(numbers, c1)
       /\ batch # NumbersOf(handleTextDocumentChange(items, MainFile, <<c2, c1>>), MainFile)


\* ---------------------------------------------------------------- sticky tracking frame
\* the tree with the numbers of the Bookmark nodes of one file blanked
RECURSIVE BlankNumbers(_, _)
BlankNumbers(nodes, filePath) ==
  IF nodes = <<>> THEN <<>>
  ELSE LET node == Head(nodes) IN
       <<IF node.type = "folder"
         THEN [node EXCEPT !.children = BlankNumbers(node.children, filePath)]
         ELSE IF node.filePath = filePath THEN [node EXCEPT !.numbers = NoNumbers]
         ELSE node>> \o BlankNumbers(Tail(nodes), filePath)

\* the change lists of an edit event, of up to two changes
EditLists ==
  LET one == {c \in ChangesIn(TreeLines) : c.start <= c.end} IN
  {<<>>} \cup {<<c>> : c \in one} \cup {<<c1, c2>> : c1 \in one, c2 \in one}

\* an edit event that has nothing to move: every change keeps the number of
\* lines, or the file has no Bookmark, or no mark is below the start line of
\* any change
NothingToMove(nodes, filePath, changes) ==
  \/ \A i \in DOMAIN changes : lineDelta(changes[i]) = 0
  \/ ~HasNode(nodes, filePath)
  \/ \A i \in DOMAIN changes, k \in DOMAIN NumbersOf(nodes, filePath) :
       NumbersOf(nodes, filePath)[k] <= changes[i].start

\* C35: an edit event for a file changes nothing but the numbers of the
\* Bookmark of that file: no node is added, removed or moved, and no id,
\* filePath, label or other file's numbers changes.  An event with nothing to
\* move leaves the tree as it is and issues no save request and no change
\* notification.
C35_StickyFrame ==
  /\ [](\A filePath \in Files, changes \in EditLists :
          LET after == handleTextDocumentChange(items, filePath, changes) IN
          /\ BlankNumbers(after, filePath) = BlankNumbers(items, filePath)
          /\ IdsIn(after) = IdsIn(items)
          /\ NothingToMove(items, filePath, changes) => after = items)
  /\ [][\A filePath \in Files, changes \in ChangeLists(TreeLines) :
          EditEvent(filePath, changes) /\ NothingToMove(items, filePath, changes)
            => UNCHANGED <<items, calls, timers, saveTimeout, notified>>]_vars

\* C35 witness: after a notified operation the tree holds a folder and the
\* Bookmarks of two files; one edit event of a file moves its mark, and
\* another one, that changes the number of lines at or below every mark of
\* the file, has nothing to move.
C35_Witness ==
  /\ FoldersIn(items) # <<>>
  /\ Len(Bookmarks(items)) = 2
  /\ notified # <<>>
  /\ \E filePath \in Files, moving \in ChangeLists(TreeLines), quiet \in ChangeLists(TreeLines) :
       /\ HasNode(items, filePath)
       /\ handleTextDocumentChange(items, filePath, moving) # items
       /\ quiet # <<>> /\ lineDelta(quiet[1]) # 0
       /\ NothingToMove(items, filePath, quiet)
       /\ ENABLED EditEvent(filePath, quiet)


\* ---------------------------------------------------------------- recovery after a corrupted load
\* the step in which the recovery action's fs.unlink deletes the document
DeleteStep == recovering = "resetStorage" /\ recovering' = Idle /\ document # Missing

\* C37: the recovery action offered after a corrupted load deletes nothing
\* but a corrupted document: the document its fs.unlink removes is one that
\* load() reports as corrupted, never a valid document written since.
C37_RecoveryDeletesCorruptedOnly ==
  [][DeleteStep => load(document).offer # NoOffer]_vars


\* ---------------------------------------------------------------- legacy migration and the first load
\* global storage with a legacy file and no per-workspace file at start: the
\* legacy file is still in place, or the migration has moved it (the only
\* way the document gets the legacy content before the first save)
LegacyOnly ==
  /\ ~saveInProject
  /\ calls.save = <<>>
  /\ \/ legacy = LegacyDocument /\ document = Missing
     \/ legacy = Missing /\ document = LegacyDocument

\* C38: with global storage, a legacy file and no per-workspace file, the
\* first load() after construction returns the bookmarks of the legacy file:
\* its fs.readFile never finds the storage location before the migration
\* has moved the file there.
C38_FirstLoadSeesMigratedFile ==
  [][ReadStep /\ calls.load = 1 /\ LegacyOnly
       => loading'.result = load(LegacyDocument).result]_vars


\* ---------------------------------------------------------------- load() is total and well formed
\* a FilemarkState as types.ts declares it: version a string, items an array
IsFilemarkState(value) ==
  /\ value.t = "object"
  /\ value.version.t = "string"
  /\ value.items.t = "array"

\* C39: whatever the document holds (nothing, something unreadable, text
\* that is not JSON, JSON null, a scalar, an array, or an object whose
\* version or items has any type), load() returns, and the state it returns
\* has a string as version and a sequence as items.
C39_LoadYieldsWellFormedState ==
  Loaded => IsFilemarkState(loading.result)


\* ---------------------------------------------------------------- dropping external files
\* C40: a drop of external files only adds marks: after the drop every
\* dropped file has number 0 at line 0, and every mark the file had before
\* the drop is still there, on its line.
C40_DropOnlyAddsMarks ==
  \A uris \in Drops :
    LET after == handleDrop(items, uris) IN
    \A i \in DOMAIN uris :
      uris[i].isFile =>
        LET before == NumbersOf(items, uris[i].filePath)
            numbers == NumbersOf(after, uris[i].filePath) IN
        /\ Has(numbers, 0) /\ numbers[0] = 0
        /\ \A num \in DOMAIN before : Has(numbers, num) /\ numbers[num] = before[num]

====
